---- MODULE Spec2Model ----
(***************************************************************************)
(* Transient toolchain: the TIR assembler (src/src/bin/transientcompile.rs) *)
(* and the Transient virtual machine (src/src/bin/transientvm.rs).          *)
(*                                                                          *)
(* A Rust String is a sequence of one-character strings; a byte is a        *)
(* number 0..255; a u64 operand of the VM is its 8-byte big-endian          *)
(* encoding, because the model checker's integers are 32 bits wide.         *)
(***************************************************************************)
EXTENDS Integers, Sequences, FiniteSets, TLC

VARIABLES
    \* ---- assembler (transientcompile.rs)
    input,                  \* the lines main() read from the source file
    source_code,            \* preprocess_source_code: the working line list
    intermediates,          \* HashMap<u64, (value, size)> of Pass 2
    ir_size_bytes,          \* Pass 4
    memory_map,             \* HashMap<String, (address, value, size)>
    decl_order,             \* the keys of memory_map in insertion order
    jump_addresses,         \* HashMap<String, usize> of Pass 7
    abstract_syntax_tree,   \* Vec<Operation> of Pass 8
    image,                  \* the Vec<u8> codegen returns (out.bin)
    pc,                     \* position of the assembler process
    error,                  \* "none", a diagnostic code, or "panic"
    first_run,              \* outcome of the previous assembly of `input`
    \* ---- one encoded instruction (codegen, then the VM's decode)
    one_op,                 \* an Operation
    one_bytes,              \* its gen_binary_instruction record
    one_decoded,            \* execute_instruction's decode of it
    \* ---- virtual machine (transientvm.rs)
    memory,                 \* [u8; TRANSIENT_MEM_MAX], index 0 is memory[1]
    image_length,
    program_counter,
    mode,                   \* "RUNNING" | "HALTED"
    stdout,                 \* what print! wrote, in order
    vm,                     \* position of the VM process
    trap,                   \* "none" or the panic that ended the process
    last,                   \* the instruction the last loop iteration executed
    load_args               \* the arguments of the last call of load_image

asm_vars == <<input, source_code, intermediates, ir_size_bytes, memory_map,
              decl_order, jump_addresses, abstract_syntax_tree, image, pc,
              error, first_run>>
enc_vars == <<one_op, one_bytes, one_decoded>>
vm_vars == <<memory, image_length, program_counter, mode, stdout, vm, trap, last,
             load_args>>
vars == <<asm_vars, enc_vars, vm_vars>>

----------------------------------------------------------------------------
(* Bounds of the model *)

\* longest source file, in lines
MaxLines == 3
\* longest stdout the VM is followed to
MaxOut == 2

----------------------------------------------------------------------------
(* Strings *)

Digits == <<"0","1","2","3","4","5","6","7","8","9">>

Letters == {"a","b","c","d","e","f","g","h","i","j","k","l","m",
            "n","o","p","q","r","s","t","u","v","w","x","y","z"}

\* char::is_numeric, on the ASCII characters of the model
IsNumeric(c) == \E i \in 1..10 : Digits[i] = c

\* char::is_alphabetic
IsAlphabetic(c) == c \in Letters

DigitVal(c) == (CHOOSE i \in 1..10 : Digits[i] = c) - 1

\* str::starts_with
StartsWith(s, p) == Len(s) >= Len(p) /\ SubSeq(s, 1, Len(p)) = p

\* &s[n..]
SliceFrom(s, n) == SubSeq(s, n + 1, Len(s))

\* least index >= i at which pat occurs in s, 0 when there is none
RECURSIVE FindFrom(_, _, _)
FindFrom(s, pat, i) ==
    IF i + Len(pat) - 1 > Len(s) THEN 0
    ELSE IF SubSeq(s, i, i + Len(pat) - 1) = pat THEN i
    ELSE FindFrom(s, pat, i + 1)

\* str::split(sep).collect(): "" gives [""], "a " gives ["a", ""]
RECURSIVE Split(_, _)
Split(s, sep) ==
    LET j == FindFrom(s, sep, 1) IN
    IF j = 0 THEN <<s>>
    ELSE <<SubSeq(s, 1, j - 1)>> \o Split(SubSeq(s, j + Len(sep), Len(s)), sep)

\* str::replace(from, to): every non-overlapping match, left to right
RECURSIVE Replace(_, _, _)
Replace(s, from, to) ==
    LET j == FindFrom(s, from, 1) IN
    IF j = 0 THEN s
    ELSE SubSeq(s, 1, j - 1) \o to
         \o Replace(SubSeq(s, j + Len(from), Len(s)), from, to)

RECURSIVE DigitsValue(_, _)
DigitsValue(s, acc) ==
    IF s = <<>> THEN acc
    ELSE DigitsValue(Tail(s), acc * 10 + DigitVal(Head(s)))

\* usize::from_str_radix(s, 10) and u64::from_str_radix(s, 10): Err on the
\* empty string, on a lone sign and on any non-digit; one leading "+" is
\* accepted. (PosOverflow needs 20 digits; the numerals here have at most 9.)
FromStrRadix10(s) ==
    LET body == IF s # <<>> /\ Head(s) = "+" THEN Tail(s) ELSE s IN
    IF body = <<>> \/ \E i \in 1..Len(body) : ~IsNumeric(body[i])
    THEN [ok |-> FALSE, val |-> 0]
    ELSE [ok |-> TRUE, val |-> DigitsValue(body, 0)]

\* format!("{n}") of an unsigned integer
RECURSIVE ToDecimal(_)
ToDecimal(n) ==
    IF n < 10 THEN <<Digits[n + 1]>>
    ELSE ToDecimal(n \div 10) \o <<Digits[(n % 10) + 1]>>

\* position of a character in the model's alphabet, for HashToken
Alphabet == <<"!","_","$","#","/"," ","+">> \o Digits

CharCode(c) ==
    IF \E i \in 1..Len(Alphabet) : Alphabet[i] = c
    THEN CHOOSE i \in 1..Len(Alphabet) : Alphabet[i] = c
    ELSE 20

\* DefaultHasher::new(); token.hash(); finish(): a fixed-key hash of the token
\* text, the same on every run. SipHash itself is not computed: this is a
\* polynomial hash, injective on the tokens of the model's sources.
RECURSIVE HashFold(_, _)
HashFold(s, h) ==
    IF s = <<>> THEN h
    ELSE HashFold(Tail(s), (h * 37 + CharCode(Head(s)) + 11) % 999983)

HashToken(token) == HashFold(token, 7)

\* the n! iteration orders of a HashMap whose key set is S
Orders(S) ==
    {o \in [1..Cardinality(S) -> S] : \A x \in S : \E i \in DOMAIN o : o[i] = x}

\* HashMap::insert
MapInsert(m, k, v) == [x \in (DOMAIN m) \cup {k} |-> IF x = k THEN v ELSE m[x]]

EmptyMap == <<>>

----------------------------------------------------------------------------
(* preprocess_source_code *)

\* Pass 1: source_code.retain(|x| !x.starts_with("//"))
Pass1Lines(src) == SelectSeq(src, LAMBDA x : ~StartsWith(x, <<"/","/">>))

\* Pass 2, the tokens of one line; acc is [err, map]
RECURSIVE CollectTokens(_, _)
CollectTokens(tokens, acc) ==
    IF tokens = <<>> \/ acc.err # "none" THEN acc
    ELSE LET token == Head(tokens) IN
         IF ~StartsWith(token, <<"!">>) THEN CollectTokens(Tail(tokens), acc)
         ELSE LET intermediate_parts == Split(token, <<"_">>) IN
              IF Len(intermediate_parts) # 2 THEN [acc EXCEPT !.err = "E011"]
              ELSE LET size == FromStrRadix10(SliceFrom(intermediate_parts[1], 1))
                       value == FromStrRadix10(intermediate_parts[2])
                       hash == HashToken(token)
                   IN IF ~size.ok THEN [acc EXCEPT !.err = "E003"]
                      ELSE IF ~value.ok THEN [acc EXCEPT !.err = "E012"]
                      ELSE IF hash \in DOMAIN acc.map
                      THEN CollectTokens(Tail(tokens), acc)
                      ELSE CollectTokens(Tail(tokens),
                              [acc EXCEPT !.map =
                                  MapInsert(acc.map, hash, <<value.val, size.val>>)])

\* Pass 2, all lines
RECURSIVE CollectIntermediates(_, _)
CollectIntermediates(src, acc) ==
    IF src = <<>> \/ acc.err # "none" THEN acc
    ELSE CollectIntermediates(Tail(src),
                              CollectTokens(Split(Head(src), <<" ">>), acc))

\* Pass 3, with `order` the order in which intermediates.iter() yields the
\* keys: each entry prepends its declaration and then rewrites every line
RECURSIVE LowerIntermediates(_, _, _)
LowerIntermediates(src, order, m) ==
    IF order = <<>> THEN src
    ELSE LET hash == Head(order)
             value == m[hash][1]
             size == m[hash][2]
             decl == <<"s","e","t">> \o ToDecimal(size) \o <<" ","$">>
                     \o ToDecimal(hash) \o <<" ">> \o ToDecimal(value)
             from == <<"!">> \o ToDecimal(size) \o <<"_">> \o ToDecimal(value)
             to == <<"$">> \o ToDecimal(hash)
             inserted == <<decl>> \o src
         IN LowerIntermediates(
                [i \in 1..Len(inserted) |-> Replace(inserted[i], from, to)],
                Tail(order), m)

\* IsIR without the test for tag lines
IsIRCountingTags(line) ==
    /\ line # <<>>
    /\ ~StartsWith(line, <<"/","/">>)
    /\ ~StartsWith(line, <<"s","e","t">>)

\* Pass 4: is this line counted as IR
IsIR(line) ==
    /\ line # <<>>
    /\ ~StartsWith(line, <<"#">>)
    /\ ~StartsWith(line, <<"/","/">>)
    /\ ~StartsWith(line, <<"s","e","t">>)

\* Pass 4: lines_of_ir * 8
IrSizeBytes(src) == Cardinality({i \in 1..Len(src) : IsIR(src[i])}) * 8

\* LayOutLine without the test for a name that is already bound
LayOutLineRebinding(line, acc, ir_size) ==
    IF ~StartsWith(line, <<"s","e","t">>) THEN acc
    ELSE LET line_tokens == Split(line, <<" ">>) IN
         IF Len(line_tokens) # 3 THEN [acc EXCEPT !.err = "E001"]
         ELSE IF ~StartsWith(line_tokens[2], <<"$">>) THEN [acc EXCEPT !.err = "E002"]
         ELSE LET name == SliceFrom(line_tokens[2], 1)
                  size == FromStrRadix10(SliceFrom(line_tokens[1], 3))
                  value == FromStrRadix10(line_tokens[3])
              IN IF ~size.ok THEN [acc EXCEPT !.err = "E003"]
                 ELSE IF ~value.ok THEN [acc EXCEPT !.err = "E004"]
                 ELSE [err |-> "none",
                       map |-> MapInsert(acc.map, name,
                                  <<ir_size + acc.offset, value.val, size.val \div 8>>),
                       order |-> Append(acc.order, name),
                       offset |-> acc.offset + size.val \div 8]

\* Pass 5, one line; acc is [err, map, order, offset]
LayOutLine(line, acc, ir_size) ==
    IF ~StartsWith(line, <<"s","e","t">>) THEN acc
    ELSE LET line_tokens == Split(line, <<" ">>) IN
         IF Len(line_tokens) # 3 THEN [acc EXCEPT !.err = "E001"]
         ELSE IF ~StartsWith(line_tokens[2], <<"$">>) THEN [acc EXCEPT !.err = "E002"]
         ELSE LET name == SliceFrom(line_tokens[2], 1)
                  size == FromStrRadix10(SliceFrom(line_tokens[1], 3))
                  value == FromStrRadix10(line_tokens[3])
              IN IF name \in DOMAIN acc.map THEN [acc EXCEPT !.err = "E010"]
                 ELSE IF ~size.ok THEN [acc EXCEPT !.err = "E003"]
                 ELSE IF ~value.ok THEN [acc EXCEPT !.err = "E004"]
                 ELSE [err |-> "none",
                       map |-> MapInsert(acc.map, name,
                                  <<ir_size + acc.offset, value.val, size.val \div 8>>),
                       order |-> Append(acc.order, name),
                       offset |-> acc.offset + size.val \div 8]

\* Pass 5, all lines
RECURSIVE LayOutVariables(_, _, _)
LayOutVariables(src, acc, ir_size) ==
    IF src = <<>> \/ acc.err # "none" THEN acc
    ELSE LayOutVariables(Tail(src), LayOutLine(Head(src), acc, ir_size), ir_size)

\* Pass 6: retain(|line| !line.is_empty() && !line.starts_with("set"))
Pass6Lines(src) ==
    SelectSeq(src, LAMBDA line : line # <<>> /\ ~StartsWith(line, <<"s","e","t">>))

\* ResolveTags binding the last tag line of the list in each round
RECURSIVE ResolveTagsLastFirst(_, _)
ResolveTagsLastFirst(src, jumps) ==
    LET tags == {i \in 1..Len(src) : StartsWith(src[i], <<"#">>)} IN
    IF tags = {} THEN [src |-> src, jumps |-> jumps]
    ELSE LET at == CHOOSE i \in tags : \A j \in tags : i >= j IN
         ResolveTagsLastFirst(SubSeq(src, 1, at - 1) \o SubSeq(src, at + 1, Len(src)),
                              MapInsert(jumps, SliceFrom(src[at], 1), (at - 1) * 8))

\* ResolveTags binding a tag to the 1-based position of its line
RECURSIVE ResolveTagsOneBased(_, _)
ResolveTagsOneBased(src, jumps) ==
    LET tags == {i \in 1..Len(src) : StartsWith(src[i], <<"#">>)} IN
    IF tags = {} THEN [src |-> src, jumps |-> jumps]
    ELSE LET at == CHOOSE i \in tags : \A j \in tags : i <= j IN
         ResolveTagsOneBased(SubSeq(src, 1, at - 1) \o SubSeq(src, at + 1, Len(src)),
                             MapInsert(jumps, SliceFrom(src[at], 1), at * 8))

\* Pass 7: the loop; each round binds the first tag line to index * 8 (index
\* counted from 0) and removes that line
RECURSIVE ResolveTags(_, _)
ResolveTags(src, jumps) ==
    LET tags == {i \in 1..Len(src) : StartsWith(src[i], <<"#">>)} IN
    IF tags = {} THEN [src |-> src, jumps |-> jumps]
    ELSE LET at == CHOOSE i \in tags : \A j \in tags : i <= j IN
         ResolveTags(SubSeq(src, 1, at - 1) \o SubSeq(src, at + 1, Len(src)),
                     MapInsert(jumps, SliceFrom(src[at], 1), (at - 1) * 8))

\* Pass 8: the closure that resolves the arguments; acc is [err, args]
RECURSIVE ResolveArgs(_, _, _, _)
ResolveArgs(tokens, acc, jumps, mm) ==
    IF tokens = <<>> \/ acc.err # "none" THEN acc
    ELSE LET x == Head(tokens) IN
         IF StartsWith(x, <<"#">>)
         THEN IF SliceFrom(x, 1) \in DOMAIN jumps
              THEN ResolveArgs(Tail(tokens),
                       [acc EXCEPT !.args = Append(@, jumps[SliceFrom(x, 1)])],
                       jumps, mm)
              ELSE [acc EXCEPT !.err = "E005"]
         ELSE IF StartsWith(x, <<"$">>)
         THEN IF SliceFrom(x, 1) \in DOMAIN mm
              THEN ResolveArgs(Tail(tokens),
                       [acc EXCEPT !.args = Append(@, mm[SliceFrom(x, 1)][1])],
                       jumps, mm)
              ELSE [acc EXCEPT !.err = "E006"]
         ELSE [acc EXCEPT !.err = "E007"]

\* number of arguments the match arm of Pass 8 demands; -1 when the arm does
\* not look at args.len() (hlt), -2 when there is no arm for the mnemonic
ArmArity(opcode) ==
    CASE opcode = <<"m","o","v">> -> 2
      [] opcode = <<"a","d","d">> -> 3
      [] opcode = <<"s","u","b">> -> 3
      [] opcode = <<"m","u","l">> -> 3
      [] opcode = <<"d","i","v","t">> -> 3
      [] opcode = <<"d","i","v","r">> -> 3
      [] opcode = <<"r","e","m">> -> 3
      [] opcode = <<"c","g","t">> -> 3
      [] opcode = <<"c","l","t">> -> 3
      [] opcode = <<"j","m","p">> -> 1
      [] opcode = <<"j","i","e">> -> 2
      [] opcode = <<"j","n","e">> -> 2
      [] opcode = <<"p","u","t","i">> -> 1
      [] opcode = <<"p","u","t","c">> -> 1
      [] opcode = <<"i","m","z">> -> 1
      [] opcode = <<"e","q","u">> -> 3
      [] opcode = <<"h","l","t">> -> -1
      [] OTHER -> -2

\* the Operation variant a match arm builds; .f is the variant's tuple
ArmOperation(opcode, size, args) ==
    CASE opcode = <<"m","o","v">> -> [tag |-> "Mov", f |-> <<size, args[1], args[2]>>]
      [] opcode = <<"a","d","d">> -> [tag |-> "Add", f |-> <<size, args[1], args[2], args[3]>>]
      [] opcode = <<"s","u","b">> -> [tag |-> "Sub", f |-> <<size, args[1], args[2], args[3]>>]
      [] opcode = <<"m","u","l">> -> [tag |-> "Mul", f |-> <<size, args[1], args[2], args[3]>>]
      [] opcode = <<"d","i","v","t">> -> [tag |-> "DivT", f |-> <<size, args[1], args[2], args[3]>>]
      [] opcode = <<"d","i","v","r">> -> [tag |-> "DivR", f |-> <<size, args[1], args[2], args[3]>>]
      [] opcode = <<"r","e","m">> -> [tag |-> "Rem", f |-> <<size, args[1], args[2], args[3]>>]
      [] opcode = <<"c","g","t">> -> [tag |-> "Cgt", f |-> <<size, args[1], args[2], args[3]>>]
      [] opcode = <<"c","l","t">> -> [tag |-> "Clt", f |-> <<size, args[1], args[2], args[3]>>]
      [] opcode = <<"j","m","p">> -> [tag |-> "Jmp", f |-> <<args[1]>>]
      [] opcode = <<"j","i","e">> -> [tag |-> "Jie", f |-> <<size, args[1], args[2]>>]
      [] opcode = <<"j","n","e">> -> [tag |-> "Jne", f |-> <<size, args[1], args[2]>>]
      [] opcode = <<"p","u","t","i">> -> [tag |-> "PutI", f |-> <<size, args[1]>>]
      [] opcode = <<"p","u","t","c">> -> [tag |-> "PutC", f |-> <<size, args[1]>>]
      [] opcode = <<"i","m","z">> -> [tag |-> "Imz", f |-> <<size, args[1]>>]
      [] opcode = <<"e","q","u">> -> [tag |-> "Equ", f |-> <<size, args[1], args[2], args[3]>>]
      [] opcode = <<"h","l","t">> -> [tag |-> "Hlt", f |-> <<>>]

\* Pass 8, one line: [err, op]. The size suffix is parsed before the
\* arguments are resolved, and both before the match on the mnemonic.
BuildOperation(line, jumps, mm) ==
    LET line_tokens == Split(line, <<" ">>)
        opcode == SelectSeq(line_tokens[1], IsAlphabetic)
        size == FromStrRadix10(SelectSeq(line_tokens[1], IsNumeric))
        args == ResolveArgs(Tail(line_tokens), [err |-> "none", args |-> <<>>],
                            jumps, mm)
        none == [tag |-> "none", f |-> <<>>]
    IN IF ~size.ok THEN [err |-> "E003", op |-> none]
       ELSE IF args.err # "none" THEN [err |-> args.err, op |-> none]
       ELSE IF ArmArity(opcode) = -2 THEN [err |-> "E009", op |-> none]
       ELSE IF ArmArity(opcode) >= 0 /\ Len(args.args) # ArmArity(opcode)
       THEN [err |-> "E008", op |-> none]
       ELSE [err |-> "none", op |-> ArmOperation(opcode, size.val \div 8, args.args)]

\* Pass 8, all lines; acc is [err, ast]
RECURSIVE BuildTree(_, _, _, _)
BuildTree(src, acc, jumps, mm) ==
    IF src = <<>> \/ acc.err # "none" THEN acc
    ELSE LET built == BuildOperation(Head(src), jumps, mm) IN
         IF built.err # "none" THEN [acc EXCEPT !.err = built.err]
         ELSE BuildTree(Tail(src), [acc EXCEPT !.ast = Append(@, built.op)],
                        jumps, mm)

----------------------------------------------------------------------------
(* codegen *)

\* resolve_operation_opcode
resolve_operation_opcode(operation) ==
    CASE operation.tag = "Mov" -> 1
      [] operation.tag = "Add" -> 2
      [] operation.tag = "Sub" -> 3
      [] operation.tag = "Mul" -> 4
      [] operation.tag = "DivT" -> 5
      [] operation.tag = "DivR" -> 6
      [] operation.tag = "Rem" -> 7
      [] operation.tag = "Cgt" -> 8
      [] operation.tag = "Clt" -> 9
      [] operation.tag = "Jmp" -> 10
      [] operation.tag = "Jie" -> 11
      [] operation.tag = "Jne" -> 12
      [] operation.tag = "PutI" -> 13
      [] operation.tag = "PutC" -> 14
      [] operation.tag = "Imz" -> 15
      [] operation.tag = "Equ" -> 16
      [] operation.tag = "Hlt" -> 255

\* U16BeBytes with the two bytes swapped (to_le_bytes)
U16LeBytes(x) == <<x % 256, (x % 65536) \div 256>>

\* (x as u16).to_be_bytes()
U16BeBytes(x) == <<(x % 65536) \div 256, x % 256>>

\* gen_binary_instruction; `size as u8` keeps the low 8 bits
gen_binary_instruction(opcode, size, src1, src2, dest) ==
    <<opcode, size % 256>> \o U16BeBytes(src1) \o U16BeBytes(src2) \o U16BeBytes(dest)

\* codegen, the match on one instruction
EncodeOperation(instruction) ==
    LET opcode == resolve_operation_opcode(instruction)
        f == instruction.f
    IN CASE instruction.tag = "Mov" -> gen_binary_instruction(opcode, f[1], f[2], 0, f[3])
         [] instruction.tag \in {"Add", "Sub", "Mul", "DivT", "DivR", "Rem",
                                 "Cgt", "Clt", "Equ"}
                -> gen_binary_instruction(opcode, f[1], f[2], f[3], f[4])
         [] instruction.tag = "Jmp" -> gen_binary_instruction(opcode, 0, f[1], 0, 0)
         [] instruction.tag \in {"Jie", "Jne"}
                -> gen_binary_instruction(opcode, f[1], f[2], f[3], 0)
         [] instruction.tag \in {"PutI", "PutC"}
                -> gen_binary_instruction(opcode, f[1], f[2], 0, 0)
         [] instruction.tag = "Imz" -> gen_binary_instruction(opcode, f[1], 0, 0, f[2])
         [] instruction.tag = "Hlt" -> gen_binary_instruction(opcode, 0, 0, 0, 0)

\* codegen, "Write instructions to image"
RECURSIVE EncodeText(_)
EncodeText(ast) ==
    IF ast = <<>> THEN <<>> ELSE EncodeOperation(Head(ast)) \o EncodeText(Tail(ast))

\* the k low bytes of n, big-endian
RECURSIVE NatToBytes(_, _)
NatToBytes(n, k) ==
    IF k = 0 THEN <<>> ELSE NatToBytes(n \div 256, k - 1) \o <<n % 256>>

\* ToBeBytes with the byte order reversed (to_le_bytes)
ToLeBytes(value) == [i \in 1..8 |-> NatToBytes(value, 8)[9 - i]]

\* u64::to_be_bytes, of a value the model holds as a number
ToBeBytes(value) == NatToBytes(value, 8)

\* codegen, "Calculate amount of space that variables take"
RECURSIVE VarSize(_, _)
VarSize(mm, names) ==
    IF names = {} THEN 0
    ELSE LET n == CHOOSE x \in names : TRUE IN mm[n][3] + VarSize(mm, names \ {n})

Zeros(n) == [i \in 1..n |-> 0]

\* codegen, "Write variables to image", in the order memory_map.values()
\* yields them; value.to_be_bytes()[8 - size..] panics when size > 8
RECURSIVE WriteVariables(_, _, _)
WriteVariables(img, order, mm) ==
    IF order = <<>> THEN [panic |-> FALSE, image |-> img]
    ELSE LET address == mm[Head(order)][1]
             value == mm[Head(order)][2]
             size == mm[Head(order)][3]
         IN IF size > 8 THEN [panic |-> TRUE, image |-> <<>>]
            ELSE WriteVariables(
                    [i \in 1..Len(img) |->
                        IF address < i /\ i <= address + size
                        THEN ToBeBytes(value)[8 - size + (i - address)]
                        ELSE img[i]],
                    Tail(order), mm)

\* codegen: [panic, image]
CodegenImage(ast, mm, order) ==
    WriteVariables(EncodeText(ast) \o Zeros(VarSize(mm, DOMAIN mm)), order, mm)

----------------------------------------------------------------------------
(* transientvm.rs: unsigned 64-bit values as 8 big-endian bytes *)

MOV == 1
ADD == 2
SUB == 3
MUL == 4
DIV_T == 5
DIV_R == 6
REM == 7
CGT == 8
CLT == 9
JMP == 10
JIE == 11
JNE == 12
PUT_I == 13
PUT_C == 14
IMZ == 15
EQU == 16
HLT == 255

TRANSIENT_MEM_MAX == 256

\* u64_pad_be with the zeros after the data
u64_pad_after(data) == data \o Zeros(8 - Len(data))

\* u64_pad_be, for data.len() <= 8 (a longer slice panics: see Execute)
u64_pad_be(data) == Zeros(8 - Len(data)) \o data

ZeroU64 == Zeros(8)

MaxU64 == [i \in 1..8 |-> 255]

\* BoolU64 with 0 for true and 1 for false
BoolU64Inverted(b) == IF b THEN ZeroU64 ELSE Zeros(7) \o <<1>>

\* (b as u64), b a boolean
BoolU64(b) == IF b THEN Zeros(7) \o <<1>> ELSE ZeroU64

\* a + b from the least significant byte up: [carry, val]
RECURSIVE AddBytes(_, _, _, _)
AddBytes(a, b, i, carry) ==
    IF i = 0 THEN [carry |-> carry, val |-> <<>>]
    ELSE LET t == a[i] + b[i] + carry
             rest == AddBytes(a, b, i - 1, t \div 256)
         IN [carry |-> rest.carry, val |-> Append(rest.val, t % 256)]

\* CheckedAdd with a carry into the lowest byte
CheckedAddCarryIn(a, b) ==
    LET r == AddBytes(a, b, 8, 1) IN [ok |-> r.carry = 0, val |-> r.val]

\* u64::checked_add: [ok, val]
CheckedAdd(a, b) ==
    LET r == AddBytes(a, b, 8, 0) IN [ok |-> r.carry = 0, val |-> r.val]

\* a - b from the least significant byte up: [borrow, val]
RECURSIVE SubBytes(_, _, _, _)
SubBytes(a, b, i, borrow) ==
    IF i = 0 THEN [borrow |-> borrow, val |-> <<>>]
    ELSE LET t == a[i] - b[i] - borrow
             rest == SubBytes(a, b, i - 1, IF t < 0 THEN 1 ELSE 0)
         IN [borrow |-> rest.borrow, val |-> Append(rest.val, (t + 256) % 256)]

\* u64::checked_sub
CheckedSub(a, b) ==
    LET r == SubBytes(a, b, Len(a), 0) IN [ok |-> r.borrow = 0, val |-> r.val]

\* a < b, both big-endian of one length
RECURSIVE LessBytes(_, _)
LessBytes(a, b) ==
    IF a = <<>> THEN FALSE
    ELSE IF Head(a) # Head(b) THEN Head(a) < Head(b)
    ELSE LessBytes(Tail(a), Tail(b))

\* sum of a[i] * b[j] over the byte pairs of weight 256^k
RECURSIVE ColumnSum(_, _, _, _)
ColumnSum(a, b, k, i) ==
    IF i > 7 THEN 0
    ELSE (IF k - i >= 0 /\ k - i <= 7 THEN a[8 - i] * b[8 - (k - i)] ELSE 0)
         + ColumnSum(a, b, k, i + 1)

\* the 16-byte product, least significant byte first
RECURSIVE MulColumns(_, _, _, _)
MulColumns(a, b, k, carry) ==
    IF k > 15 THEN <<>>
    ELSE LET t == ColumnSum(a, b, k, 0) + carry
         IN <<t % 256>> \o MulColumns(a, b, k + 1, t \div 256)

\* CheckedMul keeping the low 64 bits of a product that overflows
CheckedMulWrapping(a, b) ==
    LET p == MulColumns(a, b, 0, 0)
    IN [ok |-> TRUE, val |-> [i \in 1..8 |-> p[9 - i]]]

\* u64::checked_mul
CheckedMul(a, b) ==
    LET p == MulColumns(a, b, 0, 0)
    IN [ok |-> \A k \in 9..16 : p[k] = 0,
        val |-> [i \in 1..8 |-> p[9 - i]]]

\* a * k + carry for a byte k, one byte longer than a
RECURSIVE ScaleBytes(_, _, _, _)
ScaleBytes(a, k, i, carry) ==
    IF i = 0 THEN <<carry>>
    ELSE LET t == a[i] * k + carry
         IN Append(ScaleBytes(a, k, i - 1, t \div 256), t % 256)

\* the largest q + x, x < 2 * bit, with (q + x) * d <= cur: one base-256
\* digit of a quotient, found bit by bit
RECURSIVE QuotientDigit(_, _, _, _)
QuotientDigit(cur, d, q, bit) ==
    IF bit = 0 THEN q
    ELSE IF LessBytes(cur, ScaleBytes(d, q + bit, 8, 0))
         THEN QuotientDigit(cur, d, q, bit \div 2)
         ELSE QuotientDigit(cur, d, q + bit, bit \div 2)

\* long division of a by d # 0 in base 256, from byte i of a on; acc holds
\* the quotient digits so far and the running remainder
RECURSIVE LongDivision(_, _, _, _)
LongDivision(a, d, i, acc) ==
    IF i > 8 THEN acc
    ELSE LET cur == acc.r \o <<a[i]>>
             digit == QuotientDigit(cur, d, 0, 128)
             rest == SubBytes(cur, ScaleBytes(d, digit, 8, 0), 9, 0).val
         IN IF Len(rest) = 9
            THEN LongDivision(a, d, i + 1,
                              [q |-> Append(acc.q, digit), r |-> Tail(rest)])
            ELSE acc

\* a / d and a % d for d # 0: [q, r]
DivRem(a, d) == LongDivision(a, d, 1, [q |-> <<>>, r |-> ZeroU64])

\* CheckedDiv giving u64::MAX for a zero divisor
CheckedDivSaturating(a, b) ==
    IF b = ZeroU64 THEN [ok |-> TRUE, val |-> MaxU64]
    ELSE [ok |-> TRUE, val |-> DivRem(a, b).q]

\* u64::checked_div
CheckedDiv(a, b) ==
    IF b = ZeroU64 THEN [ok |-> FALSE, val |-> ZeroU64]
    ELSE [ok |-> TRUE, val |-> DivRem(a, b).q]

\* 2^53 <= a: a is outside the range f64 holds exactly
Above53(a) == a[1] # 0 \/ a[2] >= 32

\* ((a as f64) / (b as f64)) as u64. The cast saturates: x / 0.0 is +inf and
\* gives u64::MAX, 0.0 / 0.0 is NaN and gives 0. For a, b < 2^53 both
\* conversions are exact, the quotient is correctly rounded and rounds up to
\* the next integer only when a >= 2^53, so the cast yields the floor.  The
\* model's states hold no larger operand of divr.
DivRounded(a, b) ==
    IF b = ZeroU64 THEN (IF a = ZeroU64 THEN ZeroU64 ELSE MaxU64)
    ELSE DivRem(a, b).q

\* resolve_instruction: [trap, instruction]
resolve_instruction(mem, base) ==
    IF ~(Len(mem) > base + 7) THEN [trap |-> "fetch", instruction |-> <<>>]
    ELSE [trap |-> "none", instruction |-> SubSeq(mem, base + 1, base + 8)]

\* memory_write storing all the bytes of data, whatever the size
memory_write_whole(mem, address, data, size) ==
    IF ~(Len(mem) > address + size) THEN [trap |-> "write", memory |-> mem]
    ELSE [trap |-> "none",
          memory |-> [i \in 1..Len(mem) |->
                        IF address < i /\ i <= address + Len(data)
                        THEN data[i - address]
                        ELSE mem[i]]]

\* memory_write storing one byte below the address
memory_write_one_below(mem, address, data, size) ==
    IF ~(Len(mem) > address + size) THEN [trap |-> "write", memory |-> mem]
    ELSE [trap |-> "none",
          memory |-> [i \in 1..Len(mem) |->
                        IF address - 1 < i /\ i <= address - 1 + size
                        THEN data[Len(data) - size + (i - address + 1)]
                        ELSE mem[i]]]

\* memory_write: [trap, memory]
memory_write(mem, address, data, size) ==
    IF ~(Len(mem) > address + size) THEN [trap |-> "write", memory |-> mem]
    ELSE [trap |-> "none",
          memory |-> [i \in 1..Len(mem) |->
                        IF address < i /\ i <= address + size
                        THEN data[Len(data) - size + (i - address)]
                        ELSE mem[i]]]

\* execute_instruction, "Decodes instruction"
Decode(instruction) ==
    [opcode |-> instruction[1],
     size |-> instruction[2],
     source1_address |-> instruction[3] * 256 + instruction[4],
     source2_address |-> instruction[5] * 256 + instruction[6],
     destination_address |-> instruction[7] * 256 + instruction[8]]

\* FallThrough advancing by one byte instead of one instruction
FallThroughOneByte(pcv) == pcv + 1

\* self.program_counter + 8
FallThrough(pcv) == pcv + 8

\* the arm of `match opcode` a byte selects, named like the assembler's variant
VmArm(opcode) ==
    CASE opcode = MOV -> "Mov"
      [] opcode = ADD -> "Add"
      [] opcode = SUB -> "Sub"
      [] opcode = MUL -> "Mul"
      [] opcode = DIV_T -> "DivT"
      [] opcode = DIV_R -> "DivR"
      [] opcode = REM -> "Rem"
      [] opcode = CGT -> "Cgt"
      [] opcode = CLT -> "Clt"
      [] opcode = JMP -> "Jmp"
      [] opcode = JIE -> "Jie"
      [] opcode = JNE -> "Jne"
      [] opcode = PUT_I -> "PutI"
      [] opcode = PUT_C -> "PutC"
      [] opcode = IMZ -> "Imz"
      [] opcode = EQU -> "Equ"
      [] opcode = HLT -> "Hlt"
      [] OTHER -> "panic"

\* what one call of execute_instruction leaves behind
Outcome(t, mem, next, md, out) ==
    [trap |-> t, memory |-> mem, next |-> next, mode |-> md, out |-> out]

\* a match arm that stores `result` ([ok, val]) at the destination
StoreArm(mem, pcv, d, result, fail) ==
    IF ~result.ok THEN Outcome(fail, mem, pcv, "RUNNING", <<>>)
    ELSE LET w == memory_write(mem, d.destination_address, result.val, d.size)
         IN IF w.trap # "none" THEN Outcome(w.trap, mem, pcv, "RUNNING", <<>>)
            ELSE Outcome("none", w.memory, FallThrough(pcv), "RUNNING", <<>>)

\* execute_instruction, the match on the opcode
Dispatch(mem, imglen, pcv, d, s1, s2) ==
    CASE d.opcode = MOV -> StoreArm(mem, pcv, d, [ok |-> TRUE, val |-> s1], "none")
      [] d.opcode = ADD -> StoreArm(mem, pcv, d, CheckedAdd(s1, s2), "overflow")
      [] d.opcode = SUB -> StoreArm(mem, pcv, d, CheckedSub(s1, s2), "overflow")
      [] d.opcode = MUL -> StoreArm(mem, pcv, d, CheckedMul(s1, s2), "overflow")
      [] d.opcode = DIV_T -> StoreArm(mem, pcv, d, CheckedDiv(s1, s2), "overflow")
      [] d.opcode = DIV_R ->
            StoreArm(mem, pcv, d, [ok |-> TRUE, val |-> DivRounded(s1, s2)], "none")
      [] d.opcode = REM ->
            StoreArm(mem, pcv, d,
                     [ok |-> s2 # ZeroU64,
                      val |-> IF s2 = ZeroU64 THEN ZeroU64 ELSE DivRem(s1, s2).r],
                     "rem_by_zero")
      [] d.opcode = CGT ->
            StoreArm(mem, pcv, d, [ok |-> TRUE, val |-> BoolU64(LessBytes(s2, s1))], "none")
      [] d.opcode = CLT ->
            StoreArm(mem, pcv, d, [ok |-> TRUE, val |-> BoolU64(LessBytes(s1, s2))], "none")
      [] d.opcode = JMP -> Outcome("none", mem, d.source1_address, "RUNNING", <<>>)
      [] d.opcode = JIE ->
            Outcome("none", mem,
                    IF s2 = ZeroU64 THEN FallThrough(pcv) ELSE d.source1_address,
                    "RUNNING", <<>>)
      [] d.opcode = JNE ->
            Outcome("none", mem,
                    IF s2 = ZeroU64 THEN d.source1_address ELSE FallThrough(pcv),
                    "RUNNING", <<>>)
      [] d.opcode = PUT_I -> Outcome("none", mem, FallThrough(pcv), "RUNNING", <<<<"int", s1>>>>)
      [] d.opcode = PUT_C -> Outcome("none", mem, FallThrough(pcv), "RUNNING", <<<<"char", s1[8]>>>>)
      [] d.opcode = IMZ ->
            StoreArm(mem, pcv, d, [ok |-> TRUE, val |-> ToBeBytes(imglen)], "none")
      [] d.opcode = EQU ->
            StoreArm(mem, pcv, d, [ok |-> TRUE, val |-> BoolU64(s1 = s2)], "none")
      [] d.opcode = HLT -> Outcome("none", mem, pcv, "HALTED", <<>>)
      [] OTHER -> Outcome("opcode", mem, pcv, "RUNNING", <<>>)

\* execute_instruction: the three asserts, the two operand loads (a slice
\* past the end of memory panics, and so does u64_pad_be of more than 8
\* bytes), then the match
execute_instruction(mem, imglen, pcv, instruction) ==
    LET d == Decode(instruction)
        stop(t) == Outcome(t, mem, pcv, "RUNNING", <<>>)
    IN IF ~(Len(mem) > d.source1_address) THEN stop("source1")
       ELSE IF ~(Len(mem) > d.source2_address) THEN stop("source2")
       ELSE IF ~(Len(mem) > d.destination_address) THEN stop("destination")
       ELSE IF d.source1_address + d.size > Len(mem) THEN stop("slice")
       ELSE IF d.size > 8 THEN stop("pad")
       ELSE IF d.source2_address + d.size > Len(mem) THEN stop("slice")
       ELSE Dispatch(mem, imglen, pcv, d,
                u64_pad_be(SubSeq(mem, d.source1_address + 1,
                                  d.source1_address + d.size)),
                u64_pad_be(SubSeq(mem, d.source2_address + 1,
                                  d.source2_address + d.size)))

\* one iteration of the loop of run(): fetch, execute
Iteration(mem, imglen, pcv) ==
    LET fetched == resolve_instruction(mem, pcv)
    IN IF fetched.trap # "none"
       THEN Outcome(fetched.trap, mem, pcv, "RUNNING", <<>>)
       ELSE execute_instruction(mem, imglen, pcv, fetched.instruction)

----------------------------------------------------------------------------
(* The source files the assembler is run on *)

Menu ==
    { <<"h","l","t">>,
      <<"h","l","t","8">>,
      <<"s","e","t","8"," ","$","c"," ","6","5">>,
      <<"s","e","t","1","6"," ","$","w"," ","3","0","0">>,
      <<"s","e","t","0"," ","$","z"," ","0">>,
      <<"p","u","t","c","8"," ","$","c">>,
      <<"#","e","n","d">>,
      <<"j","m","p","8"," ","#","e","n","d">>,
      <<"p","u","t","i","8"," ","!","8","_","1">>,
      <<"p","u","t","i","8"," ","!","8","_","1","2">>,
      <<"p","u","t","c","8"," ","!","8","_","6","5">>,
      <<"/","/"," ","c">>,
      <<>> }

Sources == UNION {[1..n -> Menu] : n \in 0..MaxLines}

----------------------------------------------------------------------------
(* Initial states *)

NoOperation == [tag |-> "none", f |-> <<>>]

NoRun == [done |-> FALSE, error |-> "none", image |-> <<>>]

NoInstruction == [pc |-> 0, instruction |-> <<>>, trap |-> "none"]

NoLoad == [offset |-> 0, image |-> <<>>, calls |-> 0]

\* the assembler as main() enters preprocess_source_code(src)
AsmStart(src) ==
    /\ input = src
    /\ source_code = src
    /\ intermediates = EmptyMap
    /\ ir_size_bytes = 0
    /\ memory_map = EmptyMap
    /\ decl_order = <<>>
    /\ jump_addresses = EmptyMap
    /\ abstract_syntax_tree = <<>>
    /\ image = <<>>
    /\ error = "none"

EncIdle ==
    /\ one_op = NoOperation
    /\ one_bytes = <<>>
    /\ one_decoded = <<>>

\* TransientState::new()
VmNew ==
    /\ memory = Zeros(TRANSIENT_MEM_MAX)
    /\ image_length = 0
    /\ program_counter = 0
    /\ mode = "HALTED"
    /\ stdout = <<>>
    /\ vm = "new"
    /\ trap = "none"
    /\ last = NoInstruction
    /\ load_args = NoLoad

Init ==
    /\ \E src \in Sources : AsmStart(src)
    /\ pc = "pass1"
    /\ first_run = NoRun
    /\ EncIdle
    /\ VmNew

----------------------------------------------------------------------------
(* The assembler, pass by pass *)

\* halt_compilation: the diagnostic is printed and the process exits
HaltCompilation(code) ==
    /\ error' = code
    /\ pc' = "failed"

Pass1 ==
    /\ pc = "pass1"
    /\ source_code' = Pass1Lines(source_code)
    /\ pc' = "pass2"
    /\ UNCHANGED <<input, intermediates, ir_size_bytes, memory_map, decl_order,
                   jump_addresses, abstract_syntax_tree, image, error, first_run>>
    /\ UNCHANGED <<enc_vars, vm_vars>>

Pass2 ==
    /\ pc = "pass2"
    /\ LET r == CollectIntermediates(source_code, [err |-> "none", map |-> EmptyMap])
       IN IF r.err # "none"
          THEN HaltCompilation(r.err) /\ UNCHANGED intermediates
          ELSE intermediates' = r.map /\ pc' = "pass3" /\ UNCHANGED error
    /\ UNCHANGED <<input, source_code, ir_size_bytes, memory_map, decl_order,
                   jump_addresses, abstract_syntax_tree, image, first_run>>
    /\ UNCHANGED <<enc_vars, vm_vars>>

\* intermediates.iter() yields the entries in an order the HashMap's
\* per-process random seed decides
Pass3 ==
    /\ pc = "pass3"
    /\ \E order \in Orders(DOMAIN intermediates) :
          source_code' = LowerIntermediates(source_code, order, intermediates)
    /\ pc' = "pass4"
    /\ UNCHANGED <<input, intermediates, ir_size_bytes, memory_map, decl_order,
                   jump_addresses, abstract_syntax_tree, image, error, first_run>>
    /\ UNCHANGED <<enc_vars, vm_vars>>

Pass4 ==
    /\ pc = "pass4"
    /\ ir_size_bytes' = IrSizeBytes(source_code)
    /\ pc' = "pass5"
    /\ UNCHANGED <<input, source_code, intermediates, memory_map, decl_order,
                   jump_addresses, abstract_syntax_tree, image, error, first_run>>
    /\ UNCHANGED <<enc_vars, vm_vars>>

Pass5 ==
    /\ pc = "pass5"
    /\ LET r == LayOutVariables(source_code,
                   [err |-> "none", map |-> EmptyMap, order |-> <<>>, offset |-> 0],
                   ir_size_bytes)
       IN IF r.err # "none"
          THEN HaltCompilation(r.err) /\ UNCHANGED <<memory_map, decl_order>>
          ELSE /\ memory_map' = r.map
               /\ decl_order' = r.order
               /\ pc' = "pass6"
               /\ UNCHANGED error
    /\ UNCHANGED <<input, source_code, intermediates, ir_size_bytes,
                   jump_addresses, abstract_syntax_tree, image, first_run>>
    /\ UNCHANGED <<enc_vars, vm_vars>>

Pass6 ==
    /\ pc = "pass6"
    /\ source_code' = Pass6Lines(source_code)
    /\ pc' = "pass7"
    /\ UNCHANGED <<input, intermediates, ir_size_bytes, memory_map, decl_order,
                   jump_addresses, abstract_syntax_tree, image, error, first_run>>
    /\ UNCHANGED <<enc_vars, vm_vars>>

Pass7 ==
    /\ pc = "pass7"
    /\ LET r == ResolveTags(source_code, EmptyMap)
       IN /\ source_code' = r.src
          /\ jump_addresses' = r.jumps
    /\ pc' = "pass8"
    /\ UNCHANGED <<input, intermediates, ir_size_bytes, memory_map, decl_order,
                   abstract_syntax_tree, image, error, first_run>>
    /\ UNCHANGED <<enc_vars, vm_vars>>

Pass8 ==
    /\ pc = "pass8"
    /\ LET r == BuildTree(source_code, [err |-> "none", ast |-> <<>>],
                          jump_addresses, memory_map)
       IN IF r.err # "none"
          THEN HaltCompilation(r.err) /\ UNCHANGED abstract_syntax_tree
          ELSE /\ abstract_syntax_tree' = r.ast
               /\ pc' = "codegen"
               /\ UNCHANGED error
    /\ UNCHANGED <<input, source_code, intermediates, ir_size_bytes, memory_map,
                   decl_order, jump_addresses, image, first_run>>
    /\ UNCHANGED <<enc_vars, vm_vars>>

\* codegen, then main() writes the image to out.bin
Codegen ==
    /\ pc = "codegen"
    /\ \E order \in Orders(DOMAIN memory_map) :
          LET r == CodegenImage(abstract_syntax_tree, memory_map, order)
          IN IF r.panic
             THEN HaltCompilation("panic") /\ UNCHANGED image
             ELSE image' = r.image /\ pc' = "emitted" /\ UNCHANGED error
    /\ UNCHANGED <<input, source_code, intermediates, ir_size_bytes, memory_map,
                   decl_order, jump_addresses, abstract_syntax_tree, first_run>>
    /\ UNCHANGED <<enc_vars, vm_vars>>

\* the assembler is run a second time on the same source file
Reassemble ==
    /\ pc \in {"emitted", "failed"}
    /\ ~first_run.done
    /\ vm = "new"
    /\ first_run' = [done |-> TRUE, error |-> error, image |-> image]
    /\ source_code' = input
    /\ intermediates' = EmptyMap
    /\ ir_size_bytes' = 0
    /\ memory_map' = EmptyMap
    /\ decl_order' = <<>>
    /\ jump_addresses' = EmptyMap
    /\ abstract_syntax_tree' = <<>>
    /\ image' = <<>>
    /\ error' = "none"
    /\ pc' = "pass1"
    /\ UNCHANGED input
    /\ UNCHANGED <<enc_vars, vm_vars>>

----------------------------------------------------------------------------
(* The virtual machine *)

\* LoadImage copying the bytes that fit when the image ends past the capacity
LoadImageClipping(offset, img) ==
    /\ vm \in {"new", "loaded", "returned"}
    /\ load_args' = [offset |-> offset, image |-> img, calls |-> load_args.calls + 1]
    /\ IF ~(Len(memory) >= Len(img))
       THEN /\ trap' = "load"
            /\ vm' = "panicked"
            /\ UNCHANGED <<memory, image_length>>
       ELSE /\ memory' = [i \in 1..Len(memory) |->
                            IF offset < i /\ i <= offset + Len(img)
                            THEN img[i - offset] ELSE memory[i]]
            /\ image_length' = Len(img)
            /\ vm' = "loaded"
            /\ UNCHANGED trap
    /\ UNCHANGED <<program_counter, mode, stdout, last>>

\* LoadImage setting the program counter to the offset
LoadImageResettingPc(offset, img) ==
    /\ vm \in {"new", "loaded", "returned"}
    /\ load_args' = [offset |-> offset, image |-> img, calls |-> load_args.calls + 1]
    /\ IF ~(Len(memory) >= Len(img)) \/ offset + Len(img) > Len(memory)
       THEN /\ trap' = "load"
            /\ vm' = "panicked"
            /\ UNCHANGED <<memory, image_length, program_counter>>
       ELSE /\ memory' = [i \in 1..Len(memory) |->
                            IF offset < i /\ i <= offset + Len(img)
                            THEN img[i - offset] ELSE memory[i]]
            /\ image_length' = Len(img)
            /\ program_counter' = offset
            /\ vm' = "loaded"
            /\ UNCHANGED trap
    /\ UNCHANGED <<mode, stdout, last>>

\* load_image, callable whenever run() is not executing: the assert compares
\* the capacity with image.len() alone; the slice
\* memory[offset..image.len() + offset] panics when it ends past the
\* capacity, before any byte is copied
LoadImage(offset, img) ==
    /\ vm \in {"new", "loaded", "returned"}
    /\ load_args' = [offset |-> offset, image |-> img, calls |-> load_args.calls + 1]
    /\ IF ~(Len(memory) >= Len(img)) \/ offset + Len(img) > Len(memory)
       THEN /\ trap' = "load"
            /\ vm' = "panicked"
            /\ UNCHANGED <<memory, image_length>>
       ELSE /\ memory' = [i \in 1..Len(memory) |->
                            IF offset < i /\ i <= offset + Len(img)
                            THEN img[i - offset] ELSE memory[i]]
            /\ image_length' = Len(img)
            /\ vm' = "loaded"
            /\ UNCHANGED trap
    /\ UNCHANGED <<program_counter, mode, stdout, last>>

\* Run leaving the program counter as it was
RunFromCurrent(start) ==
    /\ vm \in {"new", "loaded"}
    /\ mode' = "RUNNING"
    /\ vm' = "running"
    /\ last' = [NoInstruction EXCEPT !.pc = start]
    /\ UNCHANGED <<memory, image_length, program_counter, stdout, trap, load_args>>

\* run(start), up to the first test of the loop condition; until the first
\* iteration, last.pc keeps the argument of the call
Run(start) ==
    /\ vm \in {"new", "loaded"}
    /\ program_counter' = start
    /\ mode' = "RUNNING"
    /\ vm' = "running"
    /\ last' = [NoInstruction EXCEPT !.pc = start]
    /\ UNCHANGED <<memory, image_length, stdout, trap, load_args>>

\* one iteration of `while self.mode == RUNNING`; run() returns when the
\* iteration executed hlt, the process dies when it panicked
Step ==
    /\ vm = "running"
    /\ mode = "RUNNING"
    /\ LET o == Iteration(memory, image_length, program_counter)
       IN /\ Len(stdout) + Len(o.out) <= MaxOut
          /\ last' = [pc |-> program_counter,
                      instruction |->
                          resolve_instruction(memory, program_counter).instruction,
                      trap |-> o.trap]
          /\ IF o.trap # "none"
             THEN /\ trap' = o.trap
                  /\ vm' = "panicked"
                  /\ UNCHANGED <<memory, program_counter, mode, stdout>>
             ELSE /\ memory' = o.memory
                  /\ program_counter' = o.next
                  /\ mode' = o.mode
                  /\ stdout' = stdout \o o.out
                  /\ vm' = IF o.mode = "HALTED" THEN "returned" ELSE "running"
                  /\ UNCHANGED trap
    /\ UNCHANGED <<image_length, load_args>>
    /\ UNCHANGED <<asm_vars, enc_vars>>

\* transientvm's main(): load_image(0, out.bin)
VmLoad ==
    /\ pc = "emitted"
    /\ vm = "new"
    /\ LoadImage(0, image)
    /\ UNCHANGED <<asm_vars, enc_vars>>

\* transientvm's main(): run(0)
VmRun ==
    /\ vm = "loaded"
    /\ Run(0)
    /\ UNCHANGED <<asm_vars, enc_vars>>

Next ==
    \/ Pass1 \/ Pass2 \/ Pass3 \/ Pass4 \/ Pass5 \/ Pass6 \/ Pass7 \/ Pass8
    \/ Codegen \/ Reassemble
    \/ VmLoad \/ VmRun \/ Step

Spec == Init /\ [][Next]_vars

----------------------------------------------------------------------------
(* One instruction through codegen and the VM's decoder *)

\* widths codegen can be handed: Pass 8 computes bits / 8 for any suffix
SizeDom == {0, 1, 2, 4, 8, 32, 256}

\* operand addresses: text offsets, data offsets, the ends of the u16 range
AddrDom == {0, 24, 65535, 65544}

Operations ==
    {[tag |-> t, f |-> <<s, a, b, c>>] :
        t \in {"Add", "Sub", "Mul", "DivT", "DivR", "Rem", "Cgt", "Clt", "Equ"},
        s \in SizeDom, a \in AddrDom, b \in AddrDom, c \in AddrDom}
    \cup {[tag |-> t, f |-> <<s, a, b>>] :
        t \in {"Mov", "Jie", "Jne"}, s \in SizeDom, a \in AddrDom, b \in AddrDom}
    \cup {[tag |-> t, f |-> <<s, a>>] :
        t \in {"PutI", "PutC", "Imz"}, s \in SizeDom, a \in AddrDom}
    \cup {[tag |-> "Jmp", f |-> <<a>>] : a \in AddrDom}
    \cup {[tag |-> "Hlt", f |-> <<>>]}

\* no assembler process
AsmIdle ==
    /\ AsmStart(<<>>)
    /\ pc = "idle"
    /\ first_run = NoRun

InitEnc ==
    /\ AsmIdle
    /\ one_op \in Operations
    /\ one_bytes = <<>>
    /\ one_decoded = <<>>
    /\ VmNew

\* codegen's loop body on the instruction
EncodeOne ==
    /\ one_op # NoOperation
    /\ one_bytes = <<>>
    /\ one_bytes' = EncodeOperation(one_op)
    /\ UNCHANGED <<one_op, one_decoded>>
    /\ UNCHANGED <<asm_vars, vm_vars>>

\* execute_instruction's decode of the record
DecodeOne ==
    /\ one_bytes # <<>>
    /\ one_decoded = <<>>
    /\ one_decoded' = Decode(one_bytes)
    /\ UNCHANGED <<one_op, one_bytes>>
    /\ UNCHANGED <<asm_vars, vm_vars>>

NextEnc == EncodeOne \/ DecodeOne

SpecEnc == InitEnc /\ [][NextEnc]_vars

----------------------------------------------------------------------------
(* The VM on hand-made images *)

\* a raw 8-byte instruction record
Instruction(opcode, size, src1, src2, dest) ==
    <<opcode, size, src1 \div 256, src1 % 256, src2 \div 256, src2 % 256,
      dest \div 256, dest % 256>>

\* the 17 opcodes and a byte that is none of them
OpcodeDom == {MOV, ADD, SUB, MUL, DIV_T, DIV_R, REM, CGT, CLT, JMP, JIE, JNE,
              PUT_I, PUT_C, IMZ, EQU, HLT, 0}

\* the data the images carry at addresses 16..23
DataDom == { <<0, 0, 0, 0, 0, 0, 0, 0>>,
             <<0, 0, 0, 0, 0, 0, 0, 3>>,
             <<255, 255, 255, 255, 255, 255, 255, 255>> }

\* the fields and the data of the images: size, src1, src2, dest, data
ImageFields ==
    {0, 1, 2, 8, 9} \X {0, 16, 250, 256} \X {16, 20, 256} \X {18, 255, 256}
        \X DataDom

\* an instruction at 0, hlt at 8, data at 16. (divr is given no operand of
\* 2^53 or more, be it the data or, read at address 0, the instruction
\* itself: see DivRounded.)
ImagesOf(o) ==
    {Instruction(o, f[1], f[2], f[3], f[4]) \o Instruction(HLT, 0, 0, 0, 0) \o f[5] :
        f \in {g \in ImageFields :
                  o = DIV_R => ~Above53(g[5]) /\ ~(g[1] = 8 /\ g[2] = 0)}}

Images == UNION {ImagesOf(o) : o \in OpcodeDom}

InitVM ==
    /\ AsmIdle
    /\ EncIdle
    /\ VmNew

VmLoadImage ==
    /\ vm = "new"
    /\ \E img \in Images : LoadImage(0, img)
    /\ UNCHANGED <<asm_vars, enc_vars>>

VmRunAt ==
    /\ vm = "loaded"
    /\ \E start \in {0, 8} : Run(start)
    /\ UNCHANGED <<asm_vars, enc_vars>>

NextVM == VmLoadImage \/ VmRunAt \/ Step

SpecVM == InitVM /\ [][NextVM]_vars

----------------------------------------------------------------------------
(* load_image and run called in turn on one TransientState *)

\* the most calls of load_image on one state
MaxLoads == 2

\* the images handed to load_image: empty; hlt; jmp 8, hlt; one as long as
\* the memory; one a byte longer
LoadImages ==
    { <<>>,
      Instruction(HLT, 0, 0, 0, 0),
      Instruction(JMP, 0, 8, 0, 0) \o Instruction(HLT, 0, 0, 0, 0),
      Instruction(HLT, 0, 0, 0, 0) \o [i \in 1..(TRANSIENT_MEM_MAX - 8) |-> 7],
      Instruction(HLT, 0, 0, 0, 0) \o [i \in 1..(TRANSIENT_MEM_MAX - 7) |-> 7] }

\* the offsets handed to load_image: the start, mid-memory, the last place
\* an instruction fits in, one past it, the capacity, one past it
LoadOffsets ==
    {0, 8, TRANSIENT_MEM_MAX - 8, TRANSIENT_MEM_MAX - 7, TRANSIENT_MEM_MAX,
     TRANSIENT_MEM_MAX + 1}

LoadAny ==
    /\ load_args.calls < MaxLoads
    /\ \E offset \in LoadOffsets : \E img \in LoadImages : LoadImage(offset, img)
    /\ UNCHANGED <<asm_vars, enc_vars>>

RunAny ==
    /\ \E start \in {0, 8} : Run(start)
    /\ UNCHANGED <<asm_vars, enc_vars>>

NextLoad == LoadAny \/ RunAny \/ Step

SpecLoad == InitVM /\ [][NextLoad]_vars

----------------------------------------------------------------------------
(* The VM on short programs: out.bin is given, transientvm loads and runs it *)

HltInstruction == Instruction(HLT, 0, 0, 0, 0)

\* mov; the same mov; hlt; eight bytes of data at 24
MovPrograms ==
    {Instruction(MOV, s, a, 0, d) \o Instruction(MOV, s, a, 0, d)
        \o HltInstruction \o <<1, 2, 3, 4, 5, 6, 7, 8>> :
        s \in {1, 2, 4}, a \in {24, 25}, d \in {24, 25, 26, 28}}

\* mov of w bytes to d; puti of the w bytes at d; hlt; data at 24
\* (the destinations: mid-memory, and the last two places w bytes fit in)
StorePrograms ==
    {Instruction(MOV, f[1], 24, 0, f[2]) \o Instruction(PUT_I, f[1], f[2], 0, 0)
        \o HltInstruction \o <<1, 2, 3, 4, 5, 6, 7, 8>> :
        f \in {g \in {1, 2, 4, 8} \X (0..TRANSIENT_MEM_MAX) :
                  g[2] \in {40, TRANSIENT_MEM_MAX - 1 - g[1],
                            TRANSIENT_MEM_MAX - g[1]}}}

\* add; sub with the same size and operands; hlt; data at 24
AddSubPrograms ==
    {Instruction(ADD, s, a, b, d) \o Instruction(SUB, s, a, b, d)
        \o HltInstruction \o <<5, 3, 7, 200, 100, 0>> :
        s \in {1, 2}, a \in 24..28, b \in 24..28, d \in 24..28}

\* equ; jie to 24 on its result; hlt at 16; hlt at 24; data at 32
EquJiePrograms ==
    {Instruction(EQU, s, a, b, d) \o Instruction(JIE, s, 24, d, 0)
        \o HltInstruction \o HltInstruction \o <<5, 5, 3, 0, 9, 0>> :
        s \in {1, 2}, a \in {32, 33, 34}, b \in {32, 33, 34}, d \in {32, 35, 36}}

\* #loop add8 $i $one $i / sub8 $counter $one $counter /
\* jne8 #loop $counter / hlt, with `set8 $counter n` at 32, `set8 $one 1`
\* at 33 and `set8 $i 0` at 34, so that $i counts the executions of the
\* loop body; and the same loop closed by jie8
LoopPrograms ==
    {Instruction(ADD, 1, 34, 33, 34) \o Instruction(SUB, 1, 32, 33, 32)
        \o Instruction(branch, 1, 0, 32, 0) \o HltInstruction \o <<n, 1, 0>> :
        branch \in {JNE, JIE}, n \in 1..255}

\* size and source addresses of the arithmetic programs: whole 8-byte
\* values (2^64 - 1 at 16, 300 at 24, 3 at 32, 0 at 40), their last byte,
\* their last two bytes
ArithOperands ==
    ({8} \X {16, 24, 32, 40} \X {16, 24, 32, 40})
        \cup ({1} \X {23, 31, 39} \X {23, 31, 39})
        \cup ({2} \X {30, 38} \X {30, 38})

\* add, sub or mul into 48; hlt; data at 16
ArithPrograms ==
    {Instruction(o, f[1], f[2], f[3], 48) \o HltInstruction
        \o MaxU64 \o <<0, 0, 0, 0, 0, 0, 1, 44>> \o <<0, 0, 0, 0, 0, 0, 0, 3>> :
        o \in {ADD, SUB, MUL}, f \in ArithOperands}

\* divt, divr or rem of one-byte operands into 21; hlt; data at 16
DivPrograms ==
    {Instruction(o, 1, a, b, 21) \o HltInstruction \o <<5, 3, 0, 7, 2, 9>> :
        o \in {DIV_T, DIV_R, REM}, a \in 16..20, b \in 16..20}

Programs ==
    MovPrograms \cup StorePrograms \cup AddSubPrograms \cup EquJiePrograms
        \cup LoopPrograms \cup ArithPrograms \cup DivPrograms

\* the assembler has run and left out.bin
InitProg ==
    /\ input = <<>>
    /\ source_code = <<>>
    /\ intermediates = EmptyMap
    /\ ir_size_bytes = 0
    /\ memory_map = EmptyMap
    /\ decl_order = <<>>
    /\ jump_addresses = EmptyMap
    /\ abstract_syntax_tree = <<>>
    /\ image \in Programs
    /\ error = "none"
    /\ pc = "emitted"
    /\ first_run = NoRun
    /\ EncIdle
    /\ VmNew

NextProg == VmLoad \/ VmRun \/ Step

SpecProg == InitProg /\ [][NextProg]_vars

----------------------------------------------------------------------------
(* The assembler on sources that exercise the checks of Pass 5, 7 and 8 *)

\* the mnemonics the match of Pass 8 has an arm for
Mnemonics ==
    { <<"m","o","v">>, <<"a","d","d">>, <<"s","u","b">>, <<"m","u","l">>,
      <<"d","i","v","t">>, <<"d","i","v","r">>, <<"r","e","m">>,
      <<"c","g","t">>, <<"c","l","t">>, <<"j","m","p">>, <<"j","i","e">>,
      <<"j","n","e">>, <<"p","u","t","i">>, <<"p","u","t","c">>,
      <<"i","m","z">>, <<"e","q","u">>, <<"h","l","t">> }

\* words the match of Pass 8 sends to its `_` arm
UnknownMnemonics == { <<"n","o","p">>, <<"h","a","l","t">> }

\* the most arguments a line of ArityLines carries
MaxArgs == 4

\* n arguments, each the declared variable $c
RECURSIVE Arguments(_)
Arguments(n) == IF n = 0 THEN <<>> ELSE <<" ","$","c">> \o Arguments(n - 1)

\* a mnemonic, known or not, with or without the width suffix, and 0..MaxArgs
\* arguments
ArityLines ==
    {m \o s \o Arguments(n) :
        m \in Mnemonics \cup UnknownMnemonics, s \in {<<>>, <<"8">>},
        n \in 0..MaxArgs}

\* `set8 $c 65` and one line of ArityLines
AritySources ==
    {<< <<"s","e","t","8"," ","$","c"," ","6","5">>, l >> : l \in ArityLines}

\* lines that start with "set", well-formed and not, and one instruction
DeclarationMenu ==
    { <<"s","e","t","8"," ","$","c"," ","6","5">>,
      <<"s","e","t","1","6"," ","$","c"," ","3","0","0">>,
      <<"s","e","t","8"," ","$","d"," ","1">>,
      <<"s","e","t","8"," ","$","c">>,
      <<"s","e","t","8"," ","$","c"," ","x">>,
      <<"s","e","t","x"," ","$","c"," ","1">>,
      <<"p","u","t","c","8"," ","$","c">> }

DeclarationSources == UNION {[1..n -> DeclarationMenu] : n \in 1..MaxLines}

\* the most lines a source of TagSources has
MaxTagLines == 4

\* two tags, and instructions that jump to them
TagMenu ==
    { <<"#","a">>, <<"#","b">>, <<"h","l","t","8">>,
      <<"j","m","p","8"," ","#","a">>, <<"j","m","p","8"," ","#","b">> }

TagSources == UNION {[1..n -> TagMenu] : n \in 0..MaxTagLines}

LineSources == AritySources \cup DeclarationSources \cup TagSources

InitLines ==
    /\ \E src \in LineSources : AsmStart(src)
    /\ pc = "pass1"
    /\ first_run = NoRun
    /\ EncIdle
    /\ VmNew

NextLines ==
    \/ Pass1 \/ Pass2 \/ Pass3 \/ Pass4 \/ Pass5 \/ Pass6 \/ Pass7 \/ Pass8
    \/ Codegen

SpecLines == InitLines /\ [][NextLines]_vars

----------------------------------------------------------------------------
(* Properties of the assembler *)

HltLine == <<"h","l","t">>

Hlt8Line == <<"h","l","t","8">>

SetCLine == <<"s","e","t","8"," ","$","c"," ","6","5">>

PutcCLine == <<"p","u","t","c","8"," ","$","c">>

EndTagLine == <<"#","e","n","d">>

Puti1Line == <<"p","u","t","i","8"," ","!","8","_","1">>

Puti12Line == <<"p","u","t","i","8"," ","!","8","_","1","2">>

Putc65Line == <<"p","u","t","c","8"," ","!","8","_","6","5">>

Set0Line == <<"s","e","t","0"," ","$","z"," ","0">>

\* the record of hlt
HltRecord == <<255, 0, 0, 0, 0, 0, 0, 0>>

\* C1: assembling the one-line source `hlt` succeeds and yields exactly the
\* image FF 00 00 00 00 00 00 00; loaded at offset 0 and run from 0, the VM
\* ends in mode HALTED with nothing printed.
C1_MinimalHalt ==
    input = <<HltLine>> =>
        /\ pc # "failed"
        /\ (pc = "emitted" => image = HltRecord)
        /\ vm # "panicked"
        /\ (vm = "returned" => mode = "HALTED" /\ stdout = <<>>)

\* the assembler has accepted the source up to and including Pass 5
LaidOut == pc \in {"pass6", "pass7", "pass8", "codegen", "emitted"}

VarAddress(k) == memory_map[decl_order[k]][1]

VarWidth(k) == memory_map[decl_order[k]][3]

RECURSIVE SumWidths(_)
SumWidths(k) == IF k = 0 THEN 0 ELSE VarWidth(k) + SumWidths(k - 1)

\* C4: for every accepted source the text size of Pass 4 is 8 times the
\* number of instructions Pass 8 produced, the first declared variable sits
\* at that offset, and the image is 8*N + (sum of all variable widths) long.
C4_ImageSize ==
    /\ pc \in {"codegen", "emitted"} =>
          /\ ir_size_bytes = 8 * Len(abstract_syntax_tree)
          /\ (decl_order # <<>> => VarAddress(1) = ir_size_bytes)
    /\ pc = "emitted" =>
          Len(image) = 8 * Len(abstract_syntax_tree) + SumWidths(Len(decl_order))

\* an accepted source with a tag, instructions, a declared and a synthetic variable
C4_Witness ==
    /\ pc = "emitted"
    /\ input = <<SetCLine, EndTagLine, Puti1Line>>
    /\ Len(image) = 10

\* C5: in the memory map of Pass 5 every variable address is >= the text
\* size, addresses are strictly increasing in declaration order (each is the
\* previous address plus the previous width), and the address ranges of two
\* distinct variables never overlap.
C5_VariableLayout ==
    LaidOut =>
        /\ DOMAIN memory_map = {decl_order[k] : k \in DOMAIN decl_order}
        /\ \A k \in DOMAIN decl_order : VarAddress(k) >= ir_size_bytes
        /\ \A k \in DOMAIN decl_order :
              k > 1 => /\ VarAddress(k) = VarAddress(k - 1) + VarWidth(k - 1)
                       /\ VarAddress(k) > VarAddress(k - 1)
        /\ \A j, k \in DOMAIN decl_order :
              j # k => \/ VarAddress(j) + VarWidth(j) <= VarAddress(k)
                       \/ VarAddress(k) + VarWidth(k) <= VarAddress(j)

\* the tags are resolved and the source not rejected so far
TagsResolved == pc \in {"pass8", "codegen", "emitted"}

\* C6: every tag address in the jump map is a multiple of 8 and points
\* within the text section: 0 <= address < text_size_bytes.
C6_TagsWithinText ==
    TagsResolved =>
        \A t \in DOMAIN jump_addresses :
            /\ jump_addresses[t] % 8 = 0
            /\ 0 <= jump_addresses[t]
            /\ jump_addresses[t] < ir_size_bytes

\* an instruction line follows the last line `#t` of the source
InstructionFollows(t) ==
    LET src == Pass1Lines(input)
        at == {i \in 1..Len(src) : src[i] = <<"#">> \o t}
    IN \E i \in 1..Len(src) :
          /\ \A j \in at : j < i
          /\ src[i] # <<>>
          /\ ~StartsWith(src[i], <<"#">>)
          /\ ~StartsWith(src[i], <<"s","e","t">>)

\* C6 as amended: every tag address is a multiple of 8 with
\* 0 <= address <= text_size_bytes; it is below text_size_bytes, the offset
\* of an emitted instruction, exactly when an instruction follows the tag.
C6_TagsWithinOrAtEndOfText ==
    TagsResolved =>
        \A t \in DOMAIN jump_addresses :
            /\ jump_addresses[t] % 8 = 0
            /\ 0 <= jump_addresses[t]
            /\ jump_addresses[t] <= ir_size_bytes
            /\ (jump_addresses[t] < ir_size_bytes <=> InstructionFollows(t))

\* a tag after the last instruction, in an accepted source
C6_Witness ==
    /\ pc = "emitted"
    /\ input = <<Hlt8Line, Hlt8Line, EndTagLine>>
    /\ jump_addresses[<<"e","n","d">>] = 16
    /\ ir_size_bytes = 16

IsImmediate(token) == StartsWith(token, <<"!">>)

\* line `decl` declares the variable `name` (with its $) with the width and
\* the value the immediate token !B_V states
DeclaresImmediate(decl, name, token) ==
    LET dt == Split(decl, <<" ">>)
        parts == Split(token, <<"_">>)
    IN /\ Len(dt) = 3
       /\ StartsWith(dt[1], <<"s","e","t">>)
       /\ dt[2] = name
       /\ FromStrRadix10(SliceFrom(dt[1], 3)).ok
       /\ FromStrRadix10(SliceFrom(dt[1], 3)).val \div 8
             = FromStrRadix10(SliceFrom(parts[1], 1)).val \div 8
       /\ FromStrRadix10(dt[3]).ok
       /\ FromStrRadix10(dt[3]).val = FromStrRadix10(parts[2]).val

\* C7: after Pass 3 no immediate token remains in any line, every argument
\* written as an immediate !B_V refers to a synthetic variable declared with
\* width B/8 and initial value V, and identical immediates refer to the same
\* variable, whatever the other immediates and the order they are processed in.
C7_ImmediatesLowered ==
    pc = "pass4" =>
        LET orig == Pass1Lines(input)
            k == Len(source_code) - Len(orig)
            was(i) == Split(orig[i], <<" ">>)
            now(i) == Split(source_code[k + i], <<" ">>)
        IN /\ \A i \in 1..Len(source_code) :
                \A j \in DOMAIN Split(source_code[i], <<" ">>) :
                    ~IsImmediate(Split(source_code[i], <<" ">>)[j])
           /\ \A i \in 1..Len(orig) :
                /\ Len(now(i)) = Len(was(i))
                /\ \A j \in DOMAIN was(i) :
                      IsImmediate(was(i)[j]) =>
                          /\ StartsWith(now(i)[j], <<"$">>)
                          /\ \E d \in 1..k :
                                DeclaresImmediate(source_code[d], now(i)[j], was(i)[j])
           /\ \A i1, i2 \in 1..Len(orig) :
                \A j1 \in DOMAIN was(i1), j2 \in DOMAIN was(i2) :
                    (IsImmediate(was(i1)[j1]) /\ was(i1)[j1] = was(i2)[j2])
                        => now(i1)[j1] = now(i2)[j2]

\* C8: assembly is deterministic: two assemblies of the same source lines
\* produce byte-identical images.
C8_Deterministic ==
    (first_run.done /\ first_run.error = "none" /\ pc = "emitted")
        => image = first_run.image

\* byte of weight 256^e of a value below 2^31
ByteOfWeight(v, e) == IF e >= 4 THEN 0 ELSE (v \div (256 ^ e)) % 256

\* C9: in the emitted image, the `width` bytes at every variable's address
\* are the least-significant `width` bytes of the big-endian encoding of its
\* value (`set8 $c 65` after two instructions puts 0x41 at offset 16, the
\* last byte of the image), and no data-section byte outside a variable's
\* range is non-zero.
C9_DataSection ==
    pc = "emitted" =>
        /\ \A n \in DOMAIN memory_map :
              \A k \in 1..memory_map[n][3] :
                  image[memory_map[n][1] + k]
                      = ByteOfWeight(memory_map[n][2], memory_map[n][3] - k)
        /\ \A i \in (ir_size_bytes + 1)..Len(image) :
              image[i] # 0 =>
                  \E n \in DOMAIN memory_map :
                      /\ memory_map[n][1] < i
                      /\ i <= memory_map[n][1] + memory_map[n][3]
        /\ (input = <<SetCLine, PutcCLine, Hlt8Line>> =>
              /\ memory_map[<<"c">>][1] = 16
              /\ Len(image) = 17
              /\ image[17] = 65)

\* a one-byte and a two-byte variable, both with a non-zero value
C9_Witness ==
    /\ pc = "emitted"
    /\ input = <<SetCLine, <<"s","e","t","1","6"," ","$","w"," ","3","0","0">>, Hlt8Line>>
    /\ image = HltRecord \o <<65, 1, 44>>

----------------------------------------------------------------------------
(* Properties of the instruction encoding *)

\* the opcode column of the ISA table
IsaOpcode(tag) ==
    CASE tag = "Mov" -> 1 [] tag = "Add" -> 2 [] tag = "Sub" -> 3
      [] tag = "Mul" -> 4 [] tag = "DivT" -> 5 [] tag = "DivR" -> 6
      [] tag = "Rem" -> 7 [] tag = "Cgt" -> 8 [] tag = "Clt" -> 9
      [] tag = "Jmp" -> 10 [] tag = "Jie" -> 11 [] tag = "Jne" -> 12
      [] tag = "PutI" -> 13 [] tag = "PutC" -> 14 [] tag = "Imz" -> 15
      [] tag = "Equ" -> 16 [] tag = "Hlt" -> 255

ThreeAddress == {"Add", "Sub", "Mul", "DivT", "DivR", "Rem", "Cgt", "Clt", "Equ"}

\* the slots of the ISA table an instruction has, absent ones zero
SlotsOf(op) ==
    CASE op.tag \in ThreeAddress ->
            [size |-> op.f[1], src1 |-> op.f[2], src2 |-> op.f[3], dest |-> op.f[4]]
      [] op.tag = "Mov" ->
            [size |-> op.f[1], src1 |-> op.f[2], src2 |-> 0, dest |-> op.f[3]]
      [] op.tag \in {"Jie", "Jne"} ->
            [size |-> op.f[1], src1 |-> op.f[2], src2 |-> op.f[3], dest |-> 0]
      [] op.tag \in {"PutI", "PutC"} ->
            [size |-> op.f[1], src1 |-> op.f[2], src2 |-> 0, dest |-> 0]
      [] op.tag = "Imz" ->
            [size |-> op.f[1], src1 |-> 0, src2 |-> 0, dest |-> op.f[2]]
      [] op.tag = "Jmp" ->
            [size |-> 0, src1 |-> op.f[1], src2 |-> 0, dest |-> 0]
      [] op.tag = "Hlt" ->
            [size |-> 0, src1 |-> 0, src2 |-> 0, dest |-> 0]

\* C2: for every instruction the assembler can build, the VM's decode of its
\* 8-byte encoding yields the same opcode (dispatched to the same
\* operation), the same size and the same operand addresses, unused slots
\* being zero.
C2_DecodeEncode ==
    one_decoded # <<>> =>
        /\ VmArm(one_decoded.opcode) = one_op.tag
        /\ one_decoded.size = SlotsOf(one_op).size
        /\ one_decoded.source1_address = SlotsOf(one_op).src1
        /\ one_decoded.source2_address = SlotsOf(one_op).src2
        /\ one_decoded.destination_address = SlotsOf(one_op).dest

\* C3: every instruction is encoded as exactly 8 bytes [opcode, size,
\* src1_hi, src1_lo, src2_hi, src2_lo, dest_hi, dest_lo] with the opcode
\* byte of the ISA table; slots the instruction does not have are zero: the
\* size byte for jmp and hlt, src2 for mov, src1 and src2 for imz, dest for
\* jmp, jie, jne, puti and putc.
C3_EightByteRecord ==
    one_bytes # <<>> =>
        /\ Len(one_bytes) = 8
        /\ \A i \in 1..8 : one_bytes[i] \in 0..255
        /\ one_bytes[1] = IsaOpcode(one_op.tag)
        /\ one_bytes[2] = SlotsOf(one_op).size % 256
        /\ one_bytes[3] * 256 + one_bytes[4] = SlotsOf(one_op).src1 % 65536
        /\ one_bytes[5] * 256 + one_bytes[6] = SlotsOf(one_op).src2 % 65536
        /\ one_bytes[7] * 256 + one_bytes[8] = SlotsOf(one_op).dest % 65536
        /\ (one_op.tag \in {"Jmp", "Hlt"} => one_bytes[2] = 0)
        /\ (one_op.tag = "Mov" => one_bytes[5] = 0 /\ one_bytes[6] = 0)
        /\ (one_op.tag = "Imz" => \A i \in 3..6 : one_bytes[i] = 0)
        /\ (one_op.tag \in {"Jmp", "Jie", "Jne", "PutI", "PutC"}
               => one_bytes[7] = 0 /\ one_bytes[8] = 0)
        /\ (one_op.tag = "Hlt" => \A i \in 2..8 : one_bytes[i] = 0)

\* mov8 from 24 to 65535: src2 is zero-filled, dest is FF FF
C3_Witness ==
    /\ one_op = [tag |-> "Mov", f |-> <<1, 24, 65535>>]
    /\ one_bytes = <<1, 1, 0, 24, 0, 0, 255, 255>>

----------------------------------------------------------------------------
(* Properties of the virtual machine *)

\* the last loop iteration executed an instruction to its end
Executed == last.instruction # <<>> /\ last.trap = "none"

LastOpcode == last.instruction[1]

LastSize == last.instruction[2]

LastSrc1 == last.instruction[3] * 256 + last.instruction[4]

LastSrc2 == last.instruction[5] * 256 + last.instruction[6]

\* the size-byte value at src2 is non-zero (jie and jne write no memory)
LastCondition == \E k \in 1..LastSize : memory[LastSrc2 + k] # 0

LastTaken ==
    \/ LastOpcode = JMP
    \/ LastOpcode = JIE /\ LastCondition
    \/ LastOpcode = JNE /\ ~LastCondition

\* C10: every instruction the VM executes sets the next PC to exactly
\* PC + 8, unless it is a taken branch (jmp, or jie/jne whose condition
\* holds), which sets it to the src1 address literal, or hlt, which leaves
\* the PC unchanged.
C10_NextPc ==
    Executed =>
        program_counter =
            IF LastOpcode = HLT THEN last.pc
            ELSE IF LastTaken THEN LastSrc1
            ELSE last.pc + 8

\* a jie whose condition holds has just jumped from 0 to 250
C10_Witness ==
    /\ Executed
    /\ last.pc = 0
    /\ LastOpcode = JIE
    /\ LastCondition
    /\ program_counter = 250

\* the three address fields of the last instruction pass "Validates memory
\* pointers"
LastAddressesInMemory ==
    /\ LastSrc1 < TRANSIENT_MEM_MAX
    /\ LastSrc2 < TRANSIENT_MEM_MAX
    /\ last.instruction[7] * 256 + last.instruction[8] < TRANSIENT_MEM_MAX

\* C11: jmp sets the next PC to the src1 address literal without reading
\* memory at src1, whatever its size byte; jie sets the next PC to src1 iff
\* the size-byte value at src2 is non-zero, else to PC + 8; jne sets it to
\* src1 iff that value is zero, else to PC + 8.
C11_BranchSemantics ==
    /\ (last.instruction # <<>> /\ LastOpcode = JMP /\ LastAddressesInMemory)
          => /\ last.trap = "none"
             /\ program_counter = LastSrc1
    /\ (Executed /\ LastOpcode = JIE)
          => program_counter = IF LastCondition THEN LastSrc1 ELSE last.pc + 8
    /\ (Executed /\ LastOpcode = JNE)
          => program_counter = IF LastCondition THEN last.pc + 8 ELSE LastSrc1

----------------------------------------------------------------------------
(* Properties of the virtual machine on the short programs *)

\* the fields of the first instruction of out.bin
FirstOpcode == image[1]

FirstSize == image[2]

FirstSrc1 == image[3] * 256 + image[4]

FirstSrc2 == image[5] * 256 + image[6]

FirstDest == image[7] * 256 + image[8]

\* the memory run(0) starts on: out.bin at 0, zeros after it
LoadedMemory == image \o [i \in 1..(TRANSIENT_MEM_MAX - Len(image)) |-> 0]

\* the size bytes at an address, before the first instruction ran
InitialBytes(address, size) == SubSeq(image \o <<0, 0, 0, 0, 0, 0, 0, 0>>,
                                      address + 1, address + size)

\* the size bytes at an address now
CurrentBytes(address, size) == SubSeq(memory, address + 1, address + size)

\* the last loop iteration fetched the instruction at address p
LastAt(p) == last.instruction # <<>> /\ last.pc = p

\* out.bin is `mov w src d / puti w d / hlt`
IsStoreProgram == Len(image) >= 16 /\ image[1] = MOV /\ image[9] = PUT_I

\* C12: for every width w in {1,2,4,8}, every value v < 2^(8w) and every
\* address a with a + w <= memory capacity, storing v as a w-byte operand
\* at a (the VM's destination write) succeeds, and loading a w-byte operand
\* from a afterwards yields v.
C12_StoreThenLoad ==
    (/\ IsStoreProgram
     /\ FirstSize \in {1, 2, 4, 8}
     /\ FirstDest + FirstSize <= TRANSIENT_MEM_MAX) =>
        /\ LastAt(0) =>
              /\ last.trap = "none"
              /\ CurrentBytes(FirstDest, FirstSize)
                    = InitialBytes(FirstSrc1, FirstSize)
        /\ LastAt(8) =>
              /\ last.trap = "none"
              /\ stdout = << <<"int", [i \in 1..(8 - FirstSize) |-> 0]
                                       \o InitialBytes(FirstSrc1, FirstSize)>> >>

LastDest == last.instruction[7] * 256 + last.instruction[8]

\* this step executes, to its end, the mov the previous step executed
MovRepeated ==
    /\ Executed
    /\ LastOpcode = MOV
    /\ last'.instruction = last.instruction
    /\ last'.trap = "none"
    /\ last'.pc # last.pc

\* C13: mov is idempotent: for every size, source address and destination
\* address, executing the same mov instruction twice in a row leaves memory
\* in the same state as executing it once.
C13_MovIdempotent == [][MovRepeated => memory' = memory]_vars

\* source and destination of the last mov are one range or disjoint ranges
MovRangesApart ==
    \/ LastSrc1 = LastDest
    \/ LastSrc1 + LastSize <= LastDest
    \/ LastDest + LastSize <= LastSrc1

\* C13 as amended: executing the same mov twice in a row leaves memory as
\* executing it once does, provided its source and destination ranges
\* [src1, src1 + size) and [dest, dest + size) are equal or disjoint.
C13_MovIdempotentApart ==
    [][(MovRepeated /\ MovRangesApart) => memory' = memory]_vars

\* the second of two movs between disjoint ranges has run, and the movs
\* changed memory
C13_Witness ==
    /\ Len(image) >= 16 /\ image[1] = MOV /\ image[9] = MOV
    /\ LastAt(8) /\ last.trap = "none"
    /\ LastSrc1 + LastSize <= LastDest
    /\ memory # LoadedMemory

\* out.bin is `add s a b d / sub s a b d / hlt`, the add has run to its end
\* and this step runs the sub to its end
SubAfterAdd ==
    /\ Len(image) >= 16 /\ image[1] = ADD /\ image[9] = SUB
    /\ SubSeq(image, 10, 16) = SubSeq(image, 2, 8)
    /\ Executed /\ last.pc = 0
    /\ last'.pc = 8 /\ last'.trap = "none"

\* C14: executing an add and then a sub that has the same size and the same
\* three operand addresses returns the destination to the value it held
\* before the add, whenever no overflow occurs, for every choice of operand
\* addresses.
C14_AddThenSub ==
    [][SubAfterAdd =>
          SubSeq(memory', FirstDest + 1, FirstDest + FirstSize)
              = InitialBytes(FirstDest, FirstSize)]_vars

\* the destination is the first source, and the second source lies apart
DestIsFirstSource ==
    /\ FirstDest = FirstSrc1
    /\ \/ FirstSrc2 + FirstSize <= FirstDest
       \/ FirstDest + FirstSize <= FirstSrc2

\* C14 as amended: when the destination address is the src1 address and the
\* src2 range is disjoint from the destination range, executing
\* `add s a b a` and then `sub s a b a`, neither of them trapping, returns
\* the size bytes at a to the value they held before the add.
C14_AddThenSubInPlace ==
    [][(SubAfterAdd /\ DestIsFirstSource) =>
          SubSeq(memory', FirstDest + 1, FirstDest + FirstSize)
              = InitialBytes(FirstDest, FirstSize)]_vars

\* add8 then sub8 of 3 into the 5 at address 24, both done: the 5 is back
C14_Witness ==
    /\ Len(image) >= 16 /\ image[1] = ADD /\ image[9] = SUB
    /\ FirstSize = 1 /\ FirstSrc1 = 24 /\ FirstSrc2 = 25 /\ FirstDest = 24
    /\ LastAt(8) /\ last.trap = "none"
    /\ memory[25] = 5

\* out.bin is `equ s a b d / jie s 24 d / hlt / hlt`
IsEquJieProgram == Len(image) >= 16 /\ image[1] = EQU /\ image[9] = JIE

\* the size-byte values at src1 and at src2 are equal before the equ
ValuesEqual ==
    InitialBytes(FirstSrc1, FirstSize) = InitialBytes(FirstSrc2, FirstSize)

\* C15: equ stores 1 at dest iff the size-byte values held in memory at
\* src1 and src2 are equal and 0 otherwise (it compares values, not the
\* operand addresses); so `equ a b d` followed by `jie _ target d`
\* transfers control to target iff the values at a and b are equal, and
\* falls through to PC + 8 otherwise.
C15_EquThenJie ==
    IsEquJieProgram =>
        /\ LastAt(0) =>
              /\ last.trap = "none"
              /\ CurrentBytes(FirstDest, FirstSize)
                    = [i \in 1..(FirstSize - 1) |-> 0]
                          \o <<IF ValuesEqual THEN 1 ELSE 0>>
              /\ program_counter = 8
        /\ LastAt(8) =>
              /\ last.trap = "none"
              /\ program_counter
                    = IF ValuesEqual THEN image[11] * 256 + image[12] ELSE 16

\* equal values at two different addresses: the jie has jumped to 24
C15_Witness ==
    /\ IsEquJieProgram
    /\ FirstSrc1 = 32 /\ FirstSrc2 = 33 /\ FirstDest = 36
    /\ ValuesEqual
    /\ LastAt(8)
    /\ program_counter = 24

\* out.bin is the counting loop closed by the given branch
IsLoopProgram(branch) ==
    /\ Len(image) >= 32
    /\ image[1] = ADD /\ image[9] = SUB /\ image[17] = branch /\ image[25] = HLT

\* the value `set8 $counter` gave the counter
InitialCounter == image[33]

\* $i: how many times the loop body has been executed
BodyExecutions == memory[35]

\* execution has just continued past the branch that closes the loop
PastBranch == LastAt(16) /\ last.trap = "none" /\ program_counter = 24

\* C16: in a program whose loop body decrements a counter by 1 with sub8 and
\* ends with `jne8 #loop $counter`, started with the counter holding n
\* (1 <= n <= 255), the loop body is executed exactly n times before
\* execution continues past the jne.
C16_JneLoopCount ==
    (IsLoopProgram(JNE) /\ PastBranch) => BodyExecutions = InitialCounter

\* C16 as amended: when the loop ends with `jie8 #loop $counter` (jump while
\* the counter is non-zero), the body is executed exactly n times before
\* execution continues past the jie, and nothing traps. With
\* `jne8 #loop $counter` (jump when the counter is zero) and n >= 2 the
\* body is executed once and execution continues past the jne; with n = 1
\* the jne jumps back and execution never continues past it.
C16_JieLoopCount ==
    /\ IsLoopProgram(JIE) =>
          /\ vm # "panicked"
          /\ BodyExecutions <= InitialCounter
          /\ PastBranch => BodyExecutions = InitialCounter
    /\ (IsLoopProgram(JNE) /\ PastBranch) =>
          /\ InitialCounter >= 2
          /\ BodyExecutions = 1

\* the jie loop started with 255 has returned after 255 executions
C16_Witness ==
    /\ IsLoopProgram(JIE)
    /\ InitialCounter = 255
    /\ vm = "returned"
    /\ BodyExecutions = 255

\* out.bin is `add|sub|mul s a b 48 / hlt`
IsArithProgram ==
    Len(image) >= 16 /\ image[1] \in {ADD, SUB, MUL} /\ image[9] = HLT

\* the two operands before the instruction ran, zero-extended to 8 bytes
FirstOperand == [i \in 1..(8 - FirstSize) |-> 0] \o InitialBytes(FirstSrc1, FirstSize)

SecondOperand == [i \in 1..(8 - FirstSize) |-> 0] \o InitialBytes(FirstSrc2, FirstSize)

\* the operands of the programs are 2^64 - 1 or below 2^16
IsAllOnes(x) == \A i \in 1..8 : x[i] = 255

NumberOf(x) == x[7] * 256 + x[8]

\* the 8-byte big-endian encoding of a number below 2^31
EightBytes(n) == [i \in 1..8 |-> ByteOfWeight(n, 8 - i)]

AllOnes == [i \in 1..8 |-> 255]

InRange(val) == [inrange |-> TRUE, val |-> val]

OutOfRange == [inrange |-> FALSE, val |-> EightBytes(0)]

\* the exact sum, difference or product of x and y: whether it lies in
\* [0, 2^64), and its encoding when it does
ExactResult(op, x, y) ==
    CASE ~IsAllOnes(x) /\ ~IsAllOnes(y) ->
            (CASE op = ADD -> InRange(EightBytes(NumberOf(x) + NumberOf(y)))
               [] op = SUB -> IF NumberOf(x) >= NumberOf(y)
                              THEN InRange(EightBytes(NumberOf(x) - NumberOf(y)))
                              ELSE OutOfRange
               [] op = MUL -> InRange(EightBytes(NumberOf(x) * NumberOf(y))))
      [] IsAllOnes(x) /\ IsAllOnes(y) ->
            IF op = SUB THEN InRange(EightBytes(0)) ELSE OutOfRange
      [] IsAllOnes(x) /\ ~IsAllOnes(y) ->
            (CASE op = ADD -> IF NumberOf(y) = 0 THEN InRange(AllOnes) ELSE OutOfRange
               [] op = SUB -> InRange([i \in 1..8 |-> 255 - y[i]])
               [] op = MUL -> IF NumberOf(y) = 0 THEN InRange(EightBytes(0))
                              ELSE IF NumberOf(y) = 1 THEN InRange(AllOnes)
                              ELSE OutOfRange)
      [] ~IsAllOnes(x) /\ IsAllOnes(y) ->
            (CASE op = ADD -> IF NumberOf(x) = 0 THEN InRange(AllOnes) ELSE OutOfRange
               [] op = SUB -> OutOfRange
               [] op = MUL -> IF NumberOf(x) = 0 THEN InRange(EightBytes(0))
                              ELSE IF NumberOf(x) = 1 THEN InRange(AllOnes)
                              ELSE OutOfRange)

\* memory with the least-significant size bytes of val stored at dest
StoredAt(mem, dest, size, val) ==
    [i \in 1..Len(mem) |->
        IF dest < i /\ i <= dest + size THEN val[8 - size + (i - dest)]
        ELSE mem[i]]

\* C17: add, sub and mul operate on the two operands zero-extended to
\* unsigned 64-bit: when the exact result lies outside [0, 2^64) the VM
\* traps fatally (arithmetic overflow) and writes nothing; otherwise it
\* writes the least-significant size bytes of the 64-bit result to dest and
\* continues at PC + 8.
C17_CheckedArithmetic ==
    (IsArithProgram /\ LastAt(0)) =>
        LET exact == ExactResult(FirstOpcode, FirstOperand, SecondOperand)
        IN IF exact.inrange
           THEN /\ last.trap = "none"
                /\ memory = StoredAt(LoadedMemory, FirstDest, FirstSize, exact.val)
                /\ program_counter = 8
           ELSE /\ last.trap = "overflow"
                /\ vm = "panicked"
                /\ memory = LoadedMemory
                /\ program_counter = 0

\* add8 of 255 and 44: the sum 299 is in range, its low byte 43 is stored
C17_Witness ==
    /\ IsArithProgram
    /\ FirstOpcode = ADD /\ FirstSize = 1 /\ FirstSrc1 = 23 /\ FirstSrc2 = 31
    /\ LastAt(0)
    /\ memory[49] = 43
    /\ program_counter = 8

\* out.bin is `divt|divr|rem 1 a b 21 / hlt`
IsDivProgram ==
    Len(image) >= 16 /\ image[1] \in {DIV_T, DIV_R, REM} /\ image[9] = HLT

\* the second operand of the first instruction is zero
ZeroDivisor == \A i \in 1..8 : SecondOperand[i] = 0

\* C18: division by zero is a fatal VM trap: executing divt or rem whose
\* second operand value is zero terminates execution without writing to
\* dest and without advancing to a next instruction.
C18_DivisionByZeroTraps ==
    (IsDivProgram /\ FirstOpcode \in {DIV_T, REM} /\ ZeroDivisor) =>
        /\ last.pc = 0
        /\ vm # "returned"
        /\ LastAt(0) =>
              /\ last.trap # "none"
              /\ vm = "panicked"
              /\ memory = LoadedMemory
              /\ program_counter = 0
              /\ stdout = <<>>

\* rem of 5 by 0 has ended the process
C18_Witness ==
    /\ IsDivProgram
    /\ FirstOpcode = REM /\ FirstSrc1 = 16 /\ FirstSrc2 = 18
    /\ ZeroDivisor
    /\ LastAt(0)
    /\ vm = "panicked"

\* the one-byte operands of the division programs, as numbers
Dividend == NumberOf(FirstOperand)

Divisor == NumberOf(SecondOperand)

\* the quotient rounded to the nearest integer, a tie going toward zero
RoundedQuotient ==
    (Dividend \div Divisor) + (IF 2 * (Dividend % Divisor) > Divisor THEN 1 ELSE 0)

\* C19: for a non-zero divisor, divr stores at dest the quotient s1 / s2
\* rounded to the nearest integer (ties toward zero), as opposed to divt
\* which stores the truncated integer quotient.
C19_DivrRounds ==
    (IsDivProgram /\ ~ZeroDivisor /\ LastAt(0)) =>
        /\ FirstOpcode = DIV_R =>
              /\ last.trap = "none"
              /\ CurrentBytes(FirstDest, FirstSize) = <<RoundedQuotient>>
        /\ FirstOpcode = DIV_T =>
              /\ last.trap = "none"
              /\ CurrentBytes(FirstDest, FirstSize) = <<Dividend \div Divisor>>

----------------------------------------------------------------------------
(* The life of a VM state *)

\* run() has been entered and no iteration of its loop has run yet
JustStarted == vm = "running" /\ last.instruction = <<>>

\* C20: a new state is zero-filled, HALTED, with PC 0 and image_length 0;
\* run(start) sets PC = start and mode RUNNING and keeps fetching and
\* executing until a hlt is executed; hlt sets mode HALTED and leaves PC at
\* the address of the hlt; run returns only in mode HALTED and no
\* instruction is executed after the hlt.
C20_Lifecycle ==
    /\ vm = "new" =>
          /\ Len(memory) = TRANSIENT_MEM_MAX
          /\ \A i \in 1..TRANSIENT_MEM_MAX : memory[i] = 0
          /\ mode = "HALTED"
          /\ program_counter = 0
          /\ image_length = 0
    /\ JustStarted => program_counter = last.pc /\ mode = "RUNNING"
    /\ vm = "running" => mode = "RUNNING" /\ trap = "none"
    /\ (Executed /\ LastOpcode = HLT) =>
          /\ mode = "HALTED"
          /\ program_counter = last.pc
          /\ vm = "returned"
    /\ vm = "returned" => mode = "HALTED" /\ Executed /\ LastOpcode = HLT

\* run(8) has returned from the hlt at 8
C20_Witness ==
    /\ vm = "returned"
    /\ mode = "HALTED"
    /\ LastAt(8)
    /\ program_counter = 8


----------------------------------------------------------------------------
(* Properties of the checks of Pass 8 *)

\* the arity the instruction set gives a mnemonic
IsaArity(m) ==
    CASE m = <<"m","o","v">> -> 2
      [] m \in { <<"a","d","d">>, <<"s","u","b">>, <<"m","u","l">>,
                 <<"d","i","v","t">>, <<"d","i","v","r">>, <<"r","e","m">>,
                 <<"c","g","t">>, <<"c","l","t">>, <<"e","q","u">> } -> 3
      [] m \in { <<"j","i","e">>, <<"j","n","e">> } -> 2
      [] m \in { <<"j","m","p">>, <<"p","u","t","i">>, <<"p","u","t","c">>,
                 <<"i","m","z">> } -> 1
      [] m = <<"h","l","t">> -> 0

\* the alphabetic characters of the first token of a line
MnemonicOf(line) == SelectSeq(Split(line, <<" ">>)[1], IsAlphabetic)

\* the numeric characters of the first token of a line
SuffixOf(line) == SelectSeq(Split(line, <<" ">>)[1], IsNumeric)

\* the tokens after the first
ArgumentsOf(line) == Tail(Split(line, <<" ">>))

\* every argument of the line is a declared variable or a bound tag
ArgumentsResolve(line) ==
    \A k \in 1..Len(ArgumentsOf(line)) :
        LET x == ArgumentsOf(line)[k] IN
        \/ StartsWith(x, <<"$">>) /\ SliceFrom(x, 1) \in DOMAIN memory_map
        \/ StartsWith(x, <<"#">>) /\ SliceFrom(x, 1) \in DOMAIN jump_addresses

\* the line is an instruction of the language: a mnemonic with a width
\* suffix and as many resolvable arguments as its arity
Conforms(line) ==
    /\ MnemonicOf(line) \in Mnemonics
    /\ SuffixOf(line) # <<>>
    /\ ArgumentsResolve(line)
    /\ Len(ArgumentsOf(line)) = IsaArity(MnemonicOf(line))

HasFault == \E i \in 1..Len(source_code) : ~Conforms(source_code[i])

\* the first line Pass 8 meets that is not an instruction of the language
FaultLine ==
    source_code[CHOOSE i \in 1..Len(source_code) :
                    /\ ~Conforms(source_code[i])
                    /\ \A j \in 1..(i - 1) : Conforms(source_code[j])]

\* the line is faulty in its number of arguments alone
ArityFault(line) ==
    /\ MnemonicOf(line) \in Mnemonics
    /\ SuffixOf(line) # <<>>
    /\ ArgumentsResolve(line)
    /\ Len(ArgumentsOf(line)) # IsaArity(MnemonicOf(line))

\* C21: arity is validated for every mnemonic: when the first faulty line
\* Pass 8 meets has a number of arguments that differs from the arity of its
\* mnemonic (mov 2; add/sub/mul/divt/divr/rem/cgt/clt/equ 3; jie/jne 2;
\* jmp/puti/putc/imz 1; hlt 0), Pass 8 rejects the source with E008 and
\* produces no instruction list.
C21_ArityValidated ==
    [][(pc = "pass8" /\ HasFault /\ ArityFault(FaultLine))
          => /\ pc' = "failed"
             /\ error' = "E008"
             /\ abstract_syntax_tree' = <<>>]_vars

\* the line is faulty in its mnemonic alone
MnemonicFault(line) ==
    /\ MnemonicOf(line) \notin Mnemonics
    /\ ArgumentsResolve(line)

\* C22: a line whose mnemonic (the alphabetic characters of its first token)
\* is none of the 17 mnemonics is rejected with E009, with or without a
\* numeric suffix on the first token.
C22_UnknownMnemonic ==
    [][(pc = "pass8" /\ HasFault /\ MnemonicFault(FaultLine))
          => /\ pc' = "failed"
             /\ error' = "E009"
             /\ abstract_syntax_tree' = <<>>]_vars

----------------------------------------------------------------------------
(* Properties of the memory map *)

\* a line Pass 5 reads a variable name from
NamesVariable(line) ==
    /\ StartsWith(line, <<"s","e","t">>)
    /\ Len(Split(line, <<" ">>)) = 3
    /\ StartsWith(Split(line, <<" ">>)[2], <<"$">>)

DeclaredName(line) == SliceFrom(Split(line, <<" ">>)[2], 1)

\* a well-formed declaration: Pass 5 binds its name unless the name is bound
Declares(line) ==
    /\ NamesVariable(line)
    /\ FromStrRadix10(SliceFrom(Split(line, <<" ">>)[1], 3)).ok
    /\ FromStrRadix10(Split(line, <<" ">>)[3]).ok

\* line j is the first declaration of src whose name an earlier declaration
\* has bound, and no line before it is malformed
Redeclares(src, j) ==
    /\ NamesVariable(src[j])
    /\ \E i \in 1..(j - 1) :
          Declares(src[i]) /\ DeclaredName(src[i]) = DeclaredName(src[j])
    /\ \A i \in 1..(j - 1) :
          StartsWith(src[i], <<"s","e","t">>) =>
              /\ Declares(src[i])
              /\ \A h \in 1..(i - 1) :
                    Declares(src[h]) => DeclaredName(src[h]) # DeclaredName(src[i])

\* C23: memory-map keys are unique: a `set` declaration whose variable name
\* is already bound by an earlier declaration is rejected with E010, assembly
\* stops and no image is produced; the memory map never rebinds a name (each
\* key was inserted once, by one declaration).
C23_UniqueNames ==
    /\ [][(pc = "pass5" /\ \E j \in 1..Len(source_code) : Redeclares(source_code, j))
             => /\ pc' = "failed"
                /\ error' = "E010"
                /\ memory_map' = EmptyMap]_vars
    /\ [](pc = "failed" => image = <<>>)
    /\ [](/\ Cardinality(DOMAIN memory_map) = Len(decl_order)
          /\ \A k \in 1..Len(decl_order) : decl_order[k] \in DOMAIN memory_map)

\* `set8 $c 65` / `set16 $c 300` has been rejected with E010
C23_Witness ==
    /\ input = << <<"s","e","t","8"," ","$","c"," ","6","5">>,
                  <<"s","e","t","1","6"," ","$","c"," ","3","0","0">> >>
    /\ pc = "failed"
    /\ error = "E010"
    /\ memory_map = EmptyMap
    /\ image = <<>>

----------------------------------------------------------------------------
(* Properties of the jump map *)

IsTagLine(line) == StartsWith(line, <<"#">>)

\* one streaming pass over the lines: a tag line is bound to the running
\* offset and has length zero, every other line is an instruction of 8 bytes
RECURSIVE StreamTags(_, _, _)
StreamTags(src, offset, jumps) ==
    IF src = <<>> THEN jumps
    ELSE IF IsTagLine(Head(src))
    THEN StreamTags(Tail(src), offset, MapInsert(jumps, SliceFrom(Head(src), 1), offset))
    ELSE StreamTags(Tail(src), offset + 8, jumps)

\* the lines with the tag lines removed
Stripped(src) == SelectSeq(src, LAMBDA line : ~IsTagLine(line))

\* the place line k of src has in Stripped(src), counted from 0
StrippedIndex(src, k) == Cardinality({h \in 1..(k - 1) : ~IsTagLine(src[h])})

\* line i is the tag line that binds its name last, and line k is the
\* instruction that follows it
FollowedBy(src, i, k) ==
    /\ IsTagLine(src[i])
    /\ \A h \in (i + 1)..Len(src) : IsTagLine(src[h]) => src[h] # src[i]
    /\ i < k
    /\ ~IsTagLine(src[k])
    /\ \A h \in (i + 1)..(k - 1) : IsTagLine(src[h])

\* C25: the address Pass 7 binds to a tag is the byte offset of the
\* instruction that textually follows the tag once all tag lines are removed;
\* the repeated scan-and-remove loop gives every tag the same address as a
\* single streaming pass that counts instruction lines and treats tag lines
\* as zero-length, including for consecutive tag lines. (A name that several
\* tag lines carry keeps the address of the last of them.)
C25_TagAddresses ==
    [][pc = "pass7" =>
          /\ source_code' = Stripped(source_code)
          /\ jump_addresses' = StreamTags(source_code, 0, EmptyMap)
          /\ \A i \in 1..Len(source_code) : \A k \in 1..Len(source_code) :
                FollowedBy(source_code, i, k) =>
                    /\ jump_addresses'[SliceFrom(source_code[i], 1)]
                          = 8 * StrippedIndex(source_code, k)
                    /\ source_code'[StrippedIndex(source_code, k) + 1]
                          = source_code[k]]_vars

\* `hlt8 / #a / #b / jmp8 #a`: the two consecutive tags are both bound to 8,
\* the offset of the jmp
C25_Witness ==
    /\ input = << <<"h","l","t","8">>, <<"#","a">>, <<"#","b">>,
                  <<"j","m","p","8"," ","#","a">> >>
    /\ pc = "pass8"
    /\ jump_addresses = MapInsert(MapInsert(EmptyMap, <<"a">>, 8), <<"b">>, 8)
    /\ source_code = << <<"h","l","t","8">>, <<"j","m","p","8"," ","#","a">> >>

----------------------------------------------------------------------------
(* Properties of load_image *)

\* the step is a call of load_image; load_args' holds its arguments
LoadCalled == load_args'.calls = load_args.calls + 1

\* C24: load_image(offset, image) succeeds only when
\* capacity >= offset + len(image); when offset + len(image) > capacity the
\* call is fatal and no memory byte, image_length, PC or mode is changed.
C24_LoadFits ==
    [][LoadCalled =>
          /\ vm' = "loaded" =>
                TRANSIENT_MEM_MAX >= load_args'.offset + Len(load_args'.image)
          /\ load_args'.offset + Len(load_args'.image) > TRANSIENT_MEM_MAX =>
                /\ vm' = "panicked"
                /\ trap' = "load"
                /\ memory' = memory
                /\ image_length' = image_length
                /\ program_counter' = program_counter
                /\ mode' = mode]_vars

\* after a first image was loaded and run, load_image of 8 bytes at the
\* offset capacity - 7 has been fatal
C24_Witness ==
    /\ load_args.calls = 2
    /\ load_args.offset = TRANSIENT_MEM_MAX - 7
    /\ Len(load_args.image) = 8
    /\ vm = "panicked"
    /\ trap = "load"
    /\ memory[1] = JMP
    /\ image_length = 16
    /\ program_counter = 8

\* C28: a successful load_image(offset, image) makes
\* memory[offset .. offset + len(image)) equal to image, sets
\* image_length = len(image), and leaves every other memory byte, the PC and
\* the mode unchanged.
C28_LoadEffect ==
    [][(LoadCalled /\ vm' = "loaded") =>
          /\ SubSeq(memory', load_args'.offset + 1,
                    load_args'.offset + Len(load_args'.image)) = load_args'.image
          /\ image_length' = Len(load_args'.image)
          /\ \A i \in 1..TRANSIENT_MEM_MAX :
                (i <= load_args'.offset
                    \/ i > load_args'.offset + Len(load_args'.image))
                    => memory'[i] = memory[i]
          /\ Len(memory') = TRANSIENT_MEM_MAX
          /\ program_counter' = program_counter
          /\ mode' = mode]_vars

\* `jmp 8 / hlt` was loaded at 0 and run to its hlt at 8; then hlt has been
\* loaded at 8: the jmp at 0 and the PC are as they were
C28_Witness ==
    /\ load_args.calls = 2
    /\ load_args.offset = 8
    /\ load_args.image = <<HLT, 0, 0, 0, 0, 0, 0, 0>>
    /\ vm = "loaded"
    /\ memory[1] = JMP
    /\ memory[9] = HLT
    /\ image_length = 8
    /\ program_counter = 8
    /\ mode = "HALTED"

----------------------------------------------------------------------------
(* Properties of the decoding and of the frame of an instruction *)

\* the last loop iteration fetched an instruction
Fetched == last.instruction # <<>>

\* C26: operand addresses are bounds-checked only for opcodes other than hlt
\* and jmp: a hlt instruction halts the VM and a jmp instruction sets the
\* next PC to src1 whatever values their address fields hold, without an
\* operand-address trap at decode. (Stated for a size byte of 0, with which
\* the operand loads read no byte.)
C26_HltJmpUnchecked ==
    /\ (Fetched /\ LastOpcode = HLT /\ LastSize = 0)
          => /\ last.trap = "none"
             /\ mode = "HALTED"
             /\ vm = "returned"
    /\ (Fetched /\ LastOpcode = JMP /\ LastSize = 0)
          => /\ last.trap = "none"
             /\ program_counter = LastSrc1

\* the three addresses of the last instruction and their ranges
\* [address, address + size) lie inside memory, the destination's with a
\* byte to spare
LastRangesInMemory ==
    /\ LastAddressesInMemory
    /\ LastSrc1 + LastSize <= TRANSIENT_MEM_MAX
    /\ LastSrc2 + LastSize <= TRANSIENT_MEM_MAX
    /\ LastDest + LastSize < TRANSIENT_MEM_MAX

\* C27: the VM accepts any byte value 0..255 as the size field: when every
\* operand range [address, address + size) of the instruction lies inside
\* memory, no value of the size byte by itself makes the instruction fatal
\* (what stops such an instruction is its arithmetic alone).
C27_AnySizeByte ==
    (Fetched /\ VmArm(LastOpcode) # "panic" /\ LastRangesInMemory)
        => last.trap \in {"none", "overflow", "rem_by_zero"}

StoringOpcodes == {MOV, ADD, SUB, MUL, DIV_T, DIV_R, REM, CGT, CLT, EQU, IMZ}

\* C29: frame of instruction execution: executing jmp, jie, jne, puti, putc
\* or hlt leaves every memory byte unchanged; executing a storing instruction
\* (mov, add, sub, mul, divt, divr, rem, cgt, clt, equ, imz) changes no
\* memory byte outside [dest, dest + size); no instruction changes
\* image_length, and only hlt changes the mode.
C29_InstructionFrame ==
    [][vm = "running" =>
          /\ image_length' = image_length
          /\ Len(memory') = Len(memory)
          /\ mode' # mode => (last'.instruction # <<>> /\ last'.instruction[1] = HLT)
          /\ IF last'.instruction # <<>> /\ last'.instruction[1] \in StoringOpcodes
             THEN \A i \in 1..TRANSIENT_MEM_MAX :
                     (i <= last'.instruction[7] * 256 + last'.instruction[8]
                        \/ i > last'.instruction[7] * 256 + last'.instruction[8]
                                 + last'.instruction[2])
                        => memory'[i] = memory[i]
             ELSE memory' = memory]_vars

\* imz of size 2 to address 18 has stored the image length 24 there, between
\* data bytes that are as the image had them
C29_Witness ==
    /\ Executed
    /\ LastOpcode = IMZ
    /\ LastSize = 2
    /\ LastDest = 18
    /\ SubSeq(memory, 17, 24) = <<255, 255, 0, 24, 255, 255, 255, 255>>
    /\ image_length = 24
    /\ mode = "RUNNING"

====
